---- MODULE Spec2Model ----
(***************************************************************************)
(* Firefly Cloud integration: the protocol client's retrying network       *)
(* operations (api.py) and the update coordinator's refresh cycle          *)
(* (coordinator.py), modelled as one sequential state machine: a cycle     *)
(* walks through its awaits, every await on the client runs the client's   *)
(* retry loop request by request.                                          *)
(***************************************************************************)
EXTENDS Integers, Sequences, FiniteSets, TLC

\* ------------------------------------------------------------------ bounds
MaxCycles == 3      \* refresh cycles started in one behaviour
MaxChildren == 2    \* longest configured children_guids list
MaxLiveCycles == 2  \* refresh cycles started in a behaviour of LiveSpec
MaxEvents == 2      \* longest raw event list handed to _process_events
MaxTasks == 2       \* longest raw task list handed to the task buckets
Day == 2            \* instants in a day; instant 0 is midnight today
MaxLookahead == 1   \* largest task_lookahead_days, in days
MaxEntries == 2     \* config entries of the integration
MaxSetups == 2      \* async_setup_entry calls per config entry
MaxSubmissions == 2 \* submissions of the auth form in one config flow

\* --------------------------------------------------------------- constants
MAX_RETRIES == 3
RETRY_DELAY_BASE == 2
ConnectionThreshold == 3    \* if self.consecutive_failures >= 3
DataThreshold == 2          \* if self.consecutive_data_errors >= 2
UnexpectedThreshold == 2    \* if self.consecutive_failures >= 2
DEFAULT_SCAN_INTERVAL == 15 \* timedelta(minutes=15), in minutes

VARIABLES
    \* FireflyAPIClient, one operation in flight at most
    opKind,         \* "none", "graphql", "events", "tasks"
    opPc,           \* "idle", "attempt", "sleep", "returned", "raised"
    attempt,        \* loop variable of  for attempt in range(MAX_RETRIES)
    requests,       \* requests sent by the operation in flight
    sleeps,         \* backoff sleeps of the operation in flight, in seconds
    responses,      \* what each request of the operation got back
    opError,        \* exception the operation raised, "none" otherwise
    opValue,        \* value the operation returned, "none" otherwise
    api_user_info,  \* FireflyAPIClient._user_info: "none" or a role
    api_secret,     \* FireflyAPIClient._secret
    api_session,    \* FireflyAPIClient._host, _device_id and _app_id
    \* FireflyUpdateCoordinator
    pc,             \* position of _async_update_data
    children_guids, \* configured child guids, a sequence
    user_info,      \* _user_info: "none" or "user"
    children_info,  \* _children_info: "none" (None) or a sequence of guids
    children_info_returned, \* a get_children_info call of a cycle has
                    \* returned
    childIdx,       \* index into target_guids of the child being fetched
    fetchStep,      \* 1 events today, 2 events calendar, 3 tasks
    children_data,  \* guids whose child data this cycle has assembled
    consecutive_failures,
    consecutive_data_errors,
    statistics,
    issues,         \* issue ids active in the issue registry
    created,        \* issue ids created by the cycle in progress, in order
    translation_placeholders,   \* placeholders of each issue in the registry
    atStart,        \* counters, statistics, issues and snapshot as they were
                    \* when the cycle in progress began
    history,        \* one record per finished cycle
    data,           \* snapshot published to consumers, NoData before any
    lastResult,     \* how the latest finished cycle ended
    user_info_log,  \* outcome of every get_user_info call so far, in order
    \* one call of the data processing of _fetch_child_data
    call,           \* the function applied and its arguments
    result,         \* what the call returned or raised, NoResult before it
    \* the host's config entries (__init__.py)
    entryPc,        \* per entry, the position of its setup or unload
    entrySetups,    \* per entry, async_setup_entry calls so far
    setupLog,       \* per entry, what its latest setup did, in order
    setupResult,    \* per entry, how its latest setup ended
    hass_domain,    \* DOMAIN in hass.data
    registry,       \* hass.data[DOMAIN]: per entry its coordinator, 0 if none
    shutdowns,      \* per entry, the async_shutdown calls of its latest
                    \* unload and how each ended
    unloadResult,   \* per entry, how its latest unload ended
    \* one config flow (config_flow.py)
    flowUserInput,  \* what the lookups find for the school code submitted
                    \* last in the user step, "none" before any
    flowStep,       \* the form shown, or the await the auth step is at
    flowErrors,     \* errors["base"] of the form shown, "none" if empty
    flowLog,        \* the calls of the latest auth submission, in order
    flowEntry,      \* the config entry the flow created, NoEntry before
    submissions     \* auth submissions so far

clientVars == <<opKind, opPc, attempt, requests, sleeps, responses, opError,
                opValue>>
coordVars == <<pc, user_info, children_info, children_info_returned, childIdx, fetchStep,
               children_data, consecutive_failures, consecutive_data_errors,
               statistics, issues, created, translation_placeholders,
               atStart, history, data, lastResult, user_info_log>>
configVars == <<api_user_info, api_secret, api_session, children_guids>>
dataVars == <<call, result>>
hostVars == <<entryPc, entrySetups, setupLog, setupResult, hass_domain,
              registry, shutdowns, unloadResult>>
flowVars == <<flowUserInput, flowStep, flowErrors, flowLog, flowEntry,
              submissions>>
vars == <<clientVars, coordVars, configVars, dataVars, hostVars, flowVars>>

\* ------------------------------------------------------------- vocabulary
UserGuid == 0

ChildConfigs == {<<>>} \cup {[i \in 1..n |-> i] : n \in 1..MaxChildren}

\* What one HTTP request can come back with.
Responses == {"ok", "malformed", "graphql_errors", "401", "429",
              "http_error", "client_error", "timeout"}

RetryKinds == {"graphql", "events", "tasks"}

IssueIds == {"connection_error", "authentication_error", "rate_limit_error",
             "data_error", "unexpected_error"}

ErrorTypes == {"FireflyTokenExpiredError", "FireflyAuthenticationError",
               "FireflyConnectionError", "FireflyRateLimitError",
               "FireflyDataError", "UnexpectedError"}

NoData == [user_info |-> "none", children_guids |-> <<>>,
           children_data |-> <<>>, last_updated |-> 0]

\* translation_placeholders or {} of an issue created without any, and the
\* entry of an issue that is not in the registry.
NoPlaceholders == [key |-> "none", value |-> 0]

\* No data processing call is under way.
NoCall == [fn |-> "none"]
NoResult == [status |-> "none"]

RECURSIVE Pow(_, _)
Pow(b, e) == IF e = 0 THEN 1 ELSE b * Pow(b, e - 1)

Range(s) == {s[i] : i \in 1..Len(s)}

\* target_guids of the cycle
TargetGuids == IF Len(children_guids) > 0 THEN children_guids
               ELSE <<UserGuid>>

\* ------------------------------------------------------------------- Init
\* The host, device id and app id FireflyAPIClient.__init__ was given.
SessionFields == [host |-> "host", device_id |-> "device", app_id |-> "app"]

\* The client and the coordinator as their constructors leave them.
Constructed ==
    /\ api_session = SessionFields
    /\ opKind = "none" /\ opPc = "idle" /\ attempt = 0 /\ requests = 0
    /\ sleeps = <<>> /\ responses = <<>> /\ opError = "none"
    /\ opValue = "none"
    /\ pc = "idle"
    /\ user_info = "none"
    /\ children_info = "none"
    /\ children_info_returned = FALSE
    /\ childIdx = 0 /\ fetchStep = 0
    /\ children_data = <<>>
    /\ consecutive_failures = 0
    /\ consecutive_data_errors = 0
    /\ statistics = [total_updates |-> 0, successful_updates |-> 0,
                     failed_updates |-> 0, last_update_time |-> 0,
                     last_success_time |-> 0, last_failure_time |-> 0,
                     error_counts |-> [t \in ErrorTypes |-> 0]]
    /\ issues = {}
    /\ created = <<>>
    /\ translation_placeholders = [id \in IssueIds |-> NoPlaceholders]
    /\ atStart = [consecutive_failures |-> 0, consecutive_data_errors |-> 0,
                  failed_updates |-> 0,
                  error_counts |-> [t \in ErrorTypes |-> 0],
                  issues |-> {}, data |-> NoData]
    /\ history = <<>>
    /\ data = NoData
    /\ lastResult = [exc |-> "none", msg |-> "none"]
    /\ user_info_log = <<>>

Entries == 1..MaxEntries

\* No config entry has been set up: hass.data has no DOMAIN key.
NotLoaded ==
    /\ entryPc = [e \in Entries |-> "not_loaded"]
    /\ entrySetups = [e \in Entries |-> 0]
    /\ setupLog = [e \in Entries |-> <<>>]
    /\ setupResult = [e \in Entries |-> "none"]
    /\ hass_domain = FALSE
    /\ registry = [e \in Entries |-> 0]
    /\ shutdowns = [e \in Entries |-> <<>>]
    /\ unloadResult = [e \in Entries |-> "none"]

NoEntry == [created |-> FALSE, children |-> "none"]

\* FireflyCloudConfigFlow.__init__ and the first, empty call of
\* async_step_user: the user form is shown.
FlowStarted ==
    /\ flowUserInput = "none"
    /\ flowStep = "user"
    /\ flowErrors = "none"
    /\ flowLog = <<>>
    /\ flowEntry = NoEntry
    /\ submissions = 0

Init ==
    /\ Constructed
    /\ NotLoaded
    /\ FlowStarted
    /\ api_user_info \in {"none", "student", "parent"}
    /\ api_secret = "stored"
    /\ children_guids \in ChildConfigs
    /\ call = NoCall
    /\ result = NoResult


\* ------------------------------------------------- FireflyAPIClient (api.py)
\* Responses a server can give to each kind of request: only a GraphQL body
\* carries an "errors" entry or a users list that may be empty.
ResponsesFor(kind) ==
    IF kind = "graphql" THEN Responses \cup {"ok_empty"}
    ELSE Responses \ {"graphql_errors"}

\* Variant of AttemptOutcome: a 401 is retried like a transport failure.
AttemptOutcomeRetry401(kind, r) ==
    CASE r = "429" -> [do |-> "raise", err |-> "FireflyRateLimitError"]
      [] r \in {"401", "http_error", "client_error", "timeout"} ->
            [do |-> "retry", err |-> "none"]
      [] r = "graphql_errors" -> [do |-> "raise", err |-> "FireflyAPIError"]
      [] r = "malformed" -> [do |-> "raise", err |-> "Exception"]
      [] OTHER -> [do |-> "return", err |-> "none"]

\* Variant of AttemptOutcome: a 429 is retried like a transport failure.
AttemptOutcomeRetry429(kind, r) ==
    CASE r = "401" -> [do |-> "raise", err |-> "FireflyTokenExpiredError"]
      [] r \in {"429", "http_error", "client_error", "timeout"} ->
            [do |-> "retry", err |-> "none"]
      [] r = "graphql_errors" -> [do |-> "raise", err |-> "FireflyAPIError"]
      [] r = "malformed" -> [do |-> "raise", err |-> "Exception"]
      [] OTHER -> [do |-> "return", err |-> "none"]

\* Variant of AttemptOutcome: a body with an "errors" entry is retried like a
\* transport failure.
AttemptOutcomeRetryGraphqlErrors(kind, r) ==
    CASE r = "401" -> [do |-> "raise", err |-> "FireflyTokenExpiredError"]
      [] r = "429" -> [do |-> "raise", err |-> "FireflyRateLimitError"]
      [] r \in {"http_error", "client_error", "timeout", "graphql_errors"} ->
            [do |-> "retry", err |-> "none"]
      [] r = "malformed" -> [do |-> "raise", err |-> "Exception"]
      [] OTHER -> [do |-> "return", err |-> "none"]

\* Variant of AttemptOutcome: a status of 500 or more is raised at once as
\* an API error.
AttemptOutcomeServerErrorFatal(kind, r) ==
    CASE r = "401" -> [do |-> "raise", err |-> "FireflyTokenExpiredError"]
      [] r = "429" -> [do |-> "raise", err |-> "FireflyRateLimitError"]
      [] r = "http_error" -> [do |-> "raise", err |-> "FireflyAPIError"]
      [] r \in {"client_error", "timeout"} ->
            [do |-> "retry", err |-> "none"]
      [] r = "graphql_errors" -> [do |-> "raise", err |-> "FireflyAPIError"]
      [] r = "malformed" -> [do |-> "raise", err |-> "Exception"]
      [] OTHER -> [do |-> "return", err |-> "none"]

\* The body of one attempt of a retrying operation, by what the request got:
\* return a value, raise out of the loop, or fall into a retrying except
\* clause (asyncio.TimeoutError, aiohttp.ClientError; raise_for_status raises
\* the latter for every other status >= 400).
AttemptOutcome(kind, r) ==
    CASE r = "401" -> [do |-> "raise", err |-> "FireflyTokenExpiredError"]
      [] r = "429" -> [do |-> "raise", err |-> "FireflyRateLimitError"]
      [] r \in {"http_error", "client_error", "timeout"} ->
            [do |-> "retry", err |-> "none"]
      [] r = "graphql_errors" -> [do |-> "raise", err |-> "FireflyAPIError"]
      [] r = "malformed" -> [do |-> "raise", err |-> "Exception"]
      [] OTHER -> [do |-> "return", err |-> "none"]

\* Variant of IsLastAttempt: the comparison is off by one.
IsLastAttemptOffByOne(a) == a = MAX_RETRIES

\* if attempt == MAX_RETRIES - 1: raise FireflyConnectionError
IsLastAttempt(a) == a = MAX_RETRIES - 1

\* Variant of BackoffDelay: the delay grows linearly.
BackoffDelayLinear(a) == RETRY_DELAY_BASE * a

\* await asyncio.sleep(RETRY_DELAY_BASE ** attempt)
BackoffDelay(a) == Pow(RETRY_DELAY_BASE, a)

\* What an operation returns for a 200 response.
ReturnValue(kind, r) ==
    IF kind = "graphql"
    THEN (IF r = "ok_empty" THEN "no_children" ELSE "children")
    ELSE "list"

\* Entering  for attempt in range(MAX_RETRIES)
StartOp(kind) ==
    /\ opKind' = kind /\ opPc' = "attempt" /\ attempt' = 0 /\ requests' = 0
    /\ sleeps' = <<>> /\ responses' = <<>> /\ opError' = "none"
    /\ opValue' = "none"

\* The caller has taken the operation's result.
ResetOp ==
    /\ opKind' = "none" /\ opPc' = "idle" /\ attempt' = 0 /\ requests' = 0
    /\ sleeps' = <<>> /\ responses' = <<>> /\ opError' = "none"
    /\ opValue' = "none"

\* One request of the operation in flight and the handling of its response.
Attempt(r) ==
    /\ opPc = "attempt"
    /\ r \in ResponsesFor(opKind)
    /\ requests' = requests + 1
    /\ responses' = Append(responses, r)
    /\ LET o == AttemptOutcome(opKind, r) IN
         CASE o.do = "return" ->
                /\ opPc' = "returned"
                /\ opValue' = ReturnValue(opKind, r)
                /\ opError' = opError
           [] o.do = "raise" ->
                /\ opPc' = "raised"
                /\ opError' = o.err
                /\ opValue' = opValue
           [] OTHER ->
                /\ opValue' = opValue
                /\ IF IsLastAttempt(attempt)
                   THEN opPc' = "raised" /\ opError' = "FireflyConnectionError"
                   ELSE opPc' = "sleep" /\ opError' = opError
    /\ UNCHANGED <<opKind, attempt, sleeps, coordVars, configVars, dataVars, hostVars, flowVars>>

\* The backoff sleep and the step of the loop; the code after the loop runs
\* when the range is exhausted.
Backoff ==
    /\ opPc = "sleep"
    /\ sleeps' = Append(sleeps, BackoffDelay(attempt))
    /\ IF attempt + 1 < MAX_RETRIES
       THEN /\ attempt' = attempt + 1
            /\ opPc' = "attempt"
            /\ UNCHANGED <<opError, opValue>>
       ELSE /\ attempt' = attempt
            /\ IF opKind = "graphql"
               THEN /\ opPc' = "raised"
                    /\ opError' = "FireflyConnectionError"
                    /\ opValue' = opValue
               ELSE /\ opPc' = "returned"
                    /\ opValue' = "list"
                    /\ opError' = opError
    /\ UNCHANGED <<opKind, requests, responses, coordVars, configVars, dataVars, hostVars, flowVars>>


\* ------------------------------- FireflyUpdateCoordinator (coordinator.py)
\* Variant of ErrorType: no clause of its own for an expired token.
ErrorTypeTokenUnclassified(e) ==
    IF e \in {"FireflyAuthenticationError", "FireflyConnectionError",
              "FireflyRateLimitError", "FireflyDataError"}
    THEN e ELSE "UnexpectedError"

\* The name _track_failure files an exception under: the handler clauses of
\* _async_update_data, tried in order; TokenExpired is a subclass of
\* Authentication and has its own clause first.
ErrorType(e) ==
    IF e \in {"FireflyTokenExpiredError", "FireflyAuthenticationError",
              "FireflyConnectionError", "FireflyRateLimitError",
              "FireflyDataError"}
    THEN e ELSE "UnexpectedError"

\* _track_failure
TrackFailure(st, t) ==
    [st EXCEPT !.failed_updates = @ + 1,
               !.last_failure_time = st.total_updates,
               !.error_counts[t] = @ + 1]

\* self.consecutive_failures after the handler of e: the connection clause
\* and the catch-all clause both increment it.
FailuresAfter(e, cf) ==
    IF ErrorType(e) \in {"FireflyConnectionError", "UnexpectedError"}
    THEN cf + 1 ELSE cf

\* self.consecutive_data_errors after the handler of e
DataErrorsAfter(e, cde) ==
    IF ErrorType(e) = "FireflyDataError" THEN cde + 1 ELSE cde

\* Variant of CreatedIssues: the connection issue comes one failure early.
CreatedIssuesEarlyConnection(e, cf, cde) ==
    CASE ErrorType(e) \in {"FireflyTokenExpiredError",
                           "FireflyAuthenticationError"} ->
            <<"authentication_error">>
      [] ErrorType(e) = "FireflyConnectionError" ->
            IF cf + 1 >= ConnectionThreshold THEN <<"connection_error">>
            ELSE <<>>
      [] ErrorType(e) = "FireflyRateLimitError" -> <<"rate_limit_error">>
      [] ErrorType(e) = "FireflyDataError" ->
            IF cde >= DataThreshold THEN <<"data_error">> ELSE <<>>
      [] OTHER ->
            IF cf >= UnexpectedThreshold THEN <<"unexpected_error">> ELSE <<>>

\* Variant of CreatedIssues: an expired token creates no issue.
CreatedIssuesNoTokenIssue(e, cf, cde) ==
    CASE ErrorType(e) = "FireflyTokenExpiredError" -> <<>>
      [] ErrorType(e) = "FireflyAuthenticationError" ->
            <<"authentication_error">>
      [] ErrorType(e) = "FireflyConnectionError" ->
            IF cf >= ConnectionThreshold THEN <<"connection_error">> ELSE <<>>
      [] ErrorType(e) = "FireflyRateLimitError" -> <<"rate_limit_error">>
      [] ErrorType(e) = "FireflyDataError" ->
            IF cde >= DataThreshold THEN <<"data_error">> ELSE <<>>
      [] OTHER ->
            IF cf >= UnexpectedThreshold THEN <<"unexpected_error">> ELSE <<>>

\* The _create_issue calls of the handler of e, given the counters as the
\* handler has just updated them.
CreatedIssues(e, cf, cde) ==
    CASE ErrorType(e) \in {"FireflyTokenExpiredError",
                           "FireflyAuthenticationError"} ->
            <<"authentication_error">>
      [] ErrorType(e) = "FireflyConnectionError" ->
            IF cf >= ConnectionThreshold THEN <<"connection_error">> ELSE <<>>
      [] ErrorType(e) = "FireflyRateLimitError" -> <<"rate_limit_error">>
      [] ErrorType(e) = "FireflyDataError" ->
            IF cde >= DataThreshold THEN <<"data_error">> ELSE <<>>
      [] OTHER ->
            IF cf >= UnexpectedThreshold THEN <<"unexpected_error">> ELSE <<>>

\* Variant of IssuePlaceholders: the suggested interval is the scan interval
\* itself.
IssuePlaceholdersNoMargin(id, cf) ==
    CASE id = "connection_error" ->
            [key |-> "consecutive_failures", value |-> cf]
      [] id = "rate_limit_error" ->
            [key |-> "update_interval", value |-> DEFAULT_SCAN_INTERVAL]
      [] id \in {"data_error", "unexpected_error"} ->
            [key |-> "error_message", value |-> 0]
      [] OTHER -> NoPlaceholders

\* translation_placeholders of the _create_issue call for issue id, cf being
\* self.consecutive_failures as the handler has just updated it; the text of
\* an error message is left out (0).
IssuePlaceholders(id, cf) ==
    CASE id = "connection_error" ->
            [key |-> "consecutive_failures", value |-> cf]
      [] id = "rate_limit_error" ->
            [key |-> "update_interval", value |-> DEFAULT_SCAN_INTERVAL + 5]
      [] id \in {"data_error", "unexpected_error"} ->
            [key |-> "error_message", value |-> 0]
      [] OTHER -> NoPlaceholders

\* Variant of RaisedFor: an expired token is reported with the message of
\* the authentication clause.
RaisedForOneAuthMessage(e) ==
    CASE ErrorType(e) \in {"FireflyTokenExpiredError",
                           "FireflyAuthenticationError"} ->
            [exc |-> "ConfigEntryAuthFailed", msg |-> "Authentication error"]
      [] ErrorType(e) = "FireflyConnectionError" ->
            [exc |-> "UpdateFailed", msg |-> "Connection error"]
      [] ErrorType(e) = "FireflyRateLimitError" ->
            [exc |-> "UpdateFailed", msg |-> "Rate limit exceeded"]
      [] ErrorType(e) = "FireflyDataError" ->
            [exc |-> "UpdateFailed", msg |-> "Data processing error"]
      [] OTHER -> [exc |-> "UpdateFailed", msg |-> "Unexpected error"]

\* What _async_update_data raises to the scheduler from the handler of e.
RaisedFor(e) ==
    CASE ErrorType(e) = "FireflyTokenExpiredError" ->
            [exc |-> "ConfigEntryAuthFailed",
             msg |-> "Authentication token expired"]
      [] ErrorType(e) = "FireflyAuthenticationError" ->
            [exc |-> "ConfigEntryAuthFailed", msg |-> "Authentication error"]
      [] ErrorType(e) = "FireflyConnectionError" ->
            [exc |-> "UpdateFailed", msg |-> "Connection error"]
      [] ErrorType(e) = "FireflyRateLimitError" ->
            [exc |-> "UpdateFailed", msg |-> "Rate limit exceeded"]
      [] ErrorType(e) = "FireflyDataError" ->
            [exc |-> "UpdateFailed", msg |-> "Data processing error"]
      [] OTHER -> [exc |-> "UpdateFailed", msg |-> "Unexpected error"]

\* Variant of DismissedOnSuccess: the rate limit issue is left out.
DismissedOnSuccessFour ==
    {"connection_error", "authentication_error", "data_error",
     "unexpected_error"}

\* The issue ids _handle_update_success dismisses.
DismissedOnSuccess ==
    {"connection_error", "authentication_error", "rate_limit_error",
     "data_error", "unexpected_error"}

\* Variant of SuccessCounters: the data error counter is not reset.
SuccessCountersKeepData ==
    [consecutive_failures |-> 0,
     consecutive_data_errors |-> consecutive_data_errors]

\* The counters as _handle_update_success leaves them.
SuccessCounters == [consecutive_failures |-> 0, consecutive_data_errors |-> 0]

\* The statistics as _handle_update_success leaves them.
SuccessStatistics(st) ==
    [st EXCEPT !.successful_updates = @ + 1,
               !.last_success_time = st.total_updates]

\* An exception e leaves the try block of _async_update_data: the matching
\* except clause runs and the cycle ends Failed. The published snapshot is
\* whatever it was.
Fail(e) ==
    LET cf == FailuresAfter(e, consecutive_failures)
        cde == DataErrorsAfter(e, consecutive_data_errors)
        cr == CreatedIssues(e, cf, cde)
    IN  /\ statistics' = TrackFailure(statistics, ErrorType(e))
        /\ consecutive_failures' = cf
        /\ consecutive_data_errors' = cde
        /\ issues' = issues \cup Range(cr)
        /\ created' = created \o cr
        /\ translation_placeholders' =
              [id \in IssueIds |->
                  IF id \in Range(cr) THEN IssuePlaceholders(id, cf)
                  ELSE translation_placeholders[id]]
        /\ history' = Append(history, [kind |-> ErrorType(e),
                                       created |-> created \o cr,
                                       cf |-> atStart.consecutive_failures,
                                       fetched |-> children_data])
        /\ lastResult' = RaisedFor(e)
        /\ pc' = "idle"
        /\ childIdx' = 0 /\ fetchStep' = 0
        /\ children_data' = <<>>
        /\ UNCHANGED <<data, atStart>>
        /\ ResetOp

\* The end of the try block: statistics logged, _handle_update_success, and
\* the snapshot returned to the scheduler, which publishes it.
Succeed(cd) ==
    /\ consecutive_failures' = SuccessCounters.consecutive_failures
    /\ consecutive_data_errors' = SuccessCounters.consecutive_data_errors
    /\ statistics' = SuccessStatistics(statistics)
    /\ issues' = issues \ DismissedOnSuccess
    /\ created' = created
    /\ translation_placeholders' =
          [id \in IssueIds |->
              IF id \in DismissedOnSuccess THEN NoPlaceholders
              ELSE translation_placeholders[id]]
    /\ history' = Append(history, [kind |-> "success", created |-> created,
                                   cf |-> atStart.consecutive_failures,
                                   fetched |-> cd])
    /\ data' = [user_info |-> user_info,
                children_guids |-> TargetGuids, children_data |-> cd,
                last_updated |-> statistics.total_updates]
    /\ lastResult' = [exc |-> "none", msg |-> "data"]
    /\ pc' = "idle"
    /\ childIdx' = 0 /\ fetchStep' = 0
    /\ children_data' = <<>>
    /\ UNCHANGED atStart
    /\ ResetOp

\* The scheduler calls _async_update_data.
StartCycle ==
    /\ pc = "idle"
    /\ statistics.total_updates < MaxCycles
    /\ statistics' = [statistics EXCEPT !.total_updates = @ + 1,
                                        !.last_update_time = @ + 1]
    /\ created' = <<>>
    /\ atStart' = [consecutive_failures |-> consecutive_failures,
                   consecutive_data_errors |-> consecutive_data_errors,
                   failed_updates |-> statistics.failed_updates,
                   error_counts |-> statistics.error_counts,
                   issues |-> issues, data |-> data]
    /\ pc' = "ensure_user"
    /\ UNCHANGED <<user_info, user_info_log, children_info, children_info_returned, childIdx,
                   fetchStep,
                   children_data, consecutive_failures,
                   consecutive_data_errors, issues, translation_placeholders,
                   history, data, lastResult, clientVars, configVars,
                   dataVars, hostVars, flowVars>>

\* Variant of EnsureUserInfo: get_user_info is called whether or not the
\* identity is cached.
EnsureUserInfoAlways ==
    /\ pc = "ensure_user"
    /\ IF api_user_info # "none"
       THEN /\ user_info' = "user"
            /\ user_info_log' = Append(user_info_log, "returned")
            /\ pc' = "ensure_children"
            /\ UNCHANGED <<children_info, children_info_returned, childIdx, fetchStep,
                           children_data, consecutive_failures,
                           consecutive_data_errors, statistics, issues,
                           created, translation_placeholders, atStart, history, data, lastResult,
                           clientVars>>
       ELSE /\ Fail("FireflyAuthenticationError")
            /\ user_info_log' = Append(user_info_log, "raised")
            /\ UNCHANGED <<user_info, children_info, children_info_returned>>
    /\ UNCHANGED <<configVars, dataVars, hostVars, flowVars>>

\* _ensure_user_and_children_info, first half; get_user_info answers from
\* the client's stored identity or raises.
EnsureUserInfo ==
    /\ pc = "ensure_user"
    /\ IF user_info # "none"
       THEN /\ pc' = "ensure_children"
            /\ UNCHANGED <<user_info, user_info_log, children_info, children_info_returned,
                           childIdx, fetchStep,
                           children_data, consecutive_failures,
                           consecutive_data_errors, statistics, issues,
                           created, translation_placeholders, atStart, history, data, lastResult,
                           clientVars>>
       ELSE IF api_user_info # "none"
       THEN /\ user_info' = "user"
            /\ user_info_log' = Append(user_info_log, "returned")
            /\ pc' = "ensure_children"
            /\ UNCHANGED <<children_info, children_info_returned, childIdx, fetchStep,
                           children_data, consecutive_failures,
                           consecutive_data_errors, statistics, issues,
                           created, translation_placeholders, atStart, history, data, lastResult,
                           clientVars>>
       ELSE /\ Fail("FireflyAuthenticationError")
            /\ user_info_log' = Append(user_info_log, "raised")
            /\ UNCHANGED <<user_info, children_info, children_info_returned>>
    /\ UNCHANGED <<configVars, dataVars, hostVars, flowVars>>

\* _ensure_user_and_children_info, second half, up to the await on the
\* GraphQL query of get_children_info.
EnsureChildrenInfo ==
    /\ pc = "ensure_children"
    /\ IF children_info = "list" \/ Len(children_guids) = 0
       THEN /\ pc' = "fetch" /\ childIdx' = 1 /\ fetchStep' = 1
            /\ UNCHANGED <<children_info, children_info_returned, clientVars>>
       ELSE IF api_user_info = "none"
       THEN \* get_children_info raises FireflyAuthenticationError: caught
            /\ children_info' = "empty"
            /\ UNCHANGED children_info_returned
            /\ pc' = "fetch" /\ childIdx' = 1 /\ fetchStep' = 1
            /\ UNCHANGED clientVars
       ELSE IF api_user_info = "student"
       THEN /\ children_info' = "list"
            /\ children_info_returned' = TRUE
            /\ pc' = "fetch" /\ childIdx' = 1 /\ fetchStep' = 1
            /\ UNCHANGED clientVars
       ELSE /\ StartOp("graphql")
            /\ pc' = "children_call"
            /\ UNCHANGED <<children_info, children_info_returned, childIdx,
                           fetchStep>>
    /\ UNCHANGED <<user_info, user_info_log, children_data, consecutive_failures,
                   consecutive_data_errors, statistics, issues, created, translation_placeholders,
                   atStart, history, data, lastResult, configVars, dataVars, hostVars, flowVars>>

\* get_children_info resumes with the query's data.
ChildrenReturn ==
    /\ pc = "children_call" /\ opPc = "returned"
    /\ children_info' = IF opValue = "no_children" THEN "empty" ELSE "list"
    /\ children_info_returned' = TRUE
    /\ pc' = "fetch" /\ childIdx' = 1 /\ fetchStep' = 1
    /\ ResetOp
    /\ UNCHANGED <<user_info, user_info_log, children_data, consecutive_failures,
                   consecutive_data_errors, statistics, issues, created, translation_placeholders,
                   atStart, history, data, lastResult, configVars, dataVars, hostVars, flowVars>>

\* The exceptions _ensure_user_and_children_info catches around
\* get_children_info.
ChildrenInfoCaught ==
    {"FireflyConnectionError", "FireflyAuthenticationError",
     "FireflyTokenExpiredError"}

\* The query of get_children_info raised.
ChildrenRaise ==
    /\ pc = "children_call" /\ opPc = "raised"
    /\ IF opError \in ChildrenInfoCaught
       THEN /\ children_info' = "empty"
            /\ UNCHANGED children_info_returned
            /\ pc' = "fetch" /\ childIdx' = 1 /\ fetchStep' = 1
            /\ ResetOp
            /\ UNCHANGED <<children_data, consecutive_failures,
                           consecutive_data_errors, statistics, issues,
                           created, translation_placeholders, atStart, history, data, lastResult>>
       ELSE /\ Fail(opError)
            /\ UNCHANGED children_info
            /\ UNCHANGED children_info_returned
    /\ UNCHANGED <<user_info, user_info_log, configVars, dataVars, hostVars, flowVars>>

\* The operation behind each await of _fetch_child_data, in order.
FetchKind(step) == IF step = 3 THEN "tasks" ELSE "events"

\* _fetch_child_data reaches its next await.
FetchCall ==
    /\ pc = "fetch"
    /\ StartOp(FetchKind(fetchStep))
    /\ pc' = "fetch_call"
    /\ UNCHANGED <<user_info, user_info_log, children_info, children_info_returned, childIdx,
                   fetchStep,
                   children_data, consecutive_failures,
                   consecutive_data_errors, statistics, issues, created, translation_placeholders,
                   atStart, history, data, lastResult, configVars, dataVars, hostVars, flowVars>>

\* Variant of FetchReturn: the loop over the target guids does not advance,
\* the same child is fetched again.
FetchReturnSameChild ==
    /\ pc = "fetch_call" /\ opPc = "returned"
    /\ fetchStep' = IF fetchStep < 3 THEN fetchStep + 1 ELSE 1
    /\ pc' = "fetch"
    /\ ResetOp
    /\ UNCHANGED <<childIdx, children_data, consecutive_failures,
                   consecutive_data_errors, statistics, issues,
                   created, translation_placeholders, atStart, history, data, lastResult>>
    /\ UNCHANGED <<user_info, user_info_log, children_info, children_info_returned, configVars,
                   dataVars, hostVars, flowVars>>

\* An await of _fetch_child_data returned; after the third the child's data
\* is stored under its guid, and after the last child the cycle succeeds.
FetchReturn ==
    /\ pc = "fetch_call" /\ opPc = "returned"
    /\ IF fetchStep < 3
       THEN /\ fetchStep' = fetchStep + 1
            /\ pc' = "fetch"
            /\ ResetOp
            /\ UNCHANGED <<childIdx, children_data, consecutive_failures,
                           consecutive_data_errors, statistics, issues,
                           created, translation_placeholders, atStart, history, data, lastResult>>
       ELSE IF childIdx < Len(TargetGuids)
       THEN /\ children_data' = Append(children_data, TargetGuids[childIdx])
            /\ childIdx' = childIdx + 1
            /\ fetchStep' = 1
            /\ pc' = "fetch"
            /\ ResetOp
            /\ UNCHANGED <<consecutive_failures, consecutive_data_errors,
                           statistics, issues, created, translation_placeholders, atStart, history,
                           data, lastResult>>
       ELSE Succeed(Append(children_data, TargetGuids[childIdx]))
    /\ UNCHANGED <<user_info, user_info_log, children_info, children_info_returned, configVars, dataVars, hostVars, flowVars>>

\* Variant of FetchRaise: the failing child is skipped and the cycle goes on
\* with the children that are left.
FetchRaiseSkipChild ==
    /\ pc = "fetch_call" /\ opPc = "raised"
    /\ IF childIdx < Len(TargetGuids)
       THEN /\ childIdx' = childIdx + 1
            /\ fetchStep' = 1
            /\ pc' = "fetch"
            /\ ResetOp
            /\ UNCHANGED <<children_data, consecutive_failures,
                           consecutive_data_errors, statistics, issues,
                           created, translation_placeholders, atStart, history, data, lastResult>>
       ELSE Succeed(children_data)
    /\ UNCHANGED <<user_info, user_info_log, children_info, children_info_returned, configVars, dataVars, hostVars, flowVars>>

\* Variant of FetchRaise: the error of a fetch is filed as unexpected
\* whatever its class.
FetchRaiseUnclassified ==
    /\ pc = "fetch_call" /\ opPc = "raised"
    /\ Fail("Exception")
    /\ UNCHANGED <<user_info, user_info_log, children_info, children_info_returned, configVars, dataVars, hostVars, flowVars>>

\* An await of _fetch_child_data raised: nothing in _fetch_child_data or
\* _fetch_all_children_data catches it.
FetchRaise ==
    /\ pc = "fetch_call" /\ opPc = "raised"
    /\ Fail(opError)
    /\ UNCHANGED <<user_info, user_info_log, children_info, children_info_returned, configVars, dataVars, hostVars, flowVars>>

\* The api object handed to the coordinator rejects a response as malformed:
\* the FireflyDataError clause of _async_update_data is there for it.
ApiDataError ==
    /\ pc = "fetch"
    /\ Fail("FireflyDataError")
    /\ UNCHANGED <<user_info, user_info_log, children_info, children_info_returned, configVars, dataVars, hostVars, flowVars>>

Next ==
    \/ \E r \in Responses \cup {"ok_empty"} : Attempt(r)
    \/ Backoff
    \/ StartCycle
    \/ EnsureUserInfo
    \/ EnsureChildrenInfo
    \/ ChildrenReturn
    \/ ChildrenRaise
    \/ FetchCall
    \/ FetchReturn
    \/ FetchRaise
    \/ ApiDataError

Spec == Init /\ [][Next]_vars

\* The task running _async_update_data is cancelled at an await on the
\* network or on a backoff sleep: CancelledError is no Exception, so no
\* except clause of the retry loops or of _async_update_data takes it and
\* neither _handle_update_success nor _track_failure runs.
CancelCycle ==
    /\ pc \in {"children_call", "fetch_call"}
    /\ opPc \in {"attempt", "sleep"}
    /\ history' = Append(history, [kind |-> "cancelled", created |-> created,
                                   cf |-> atStart.consecutive_failures,
                                   fetched |-> children_data])
    /\ lastResult' = [exc |-> "CancelledError", msg |-> "none"]
    /\ pc' = "idle"
    /\ childIdx' = 0 /\ fetchStep' = 0
    /\ children_data' = <<>>
    /\ ResetOp
    /\ UNCHANGED <<user_info, user_info_log, children_info, children_info_returned,
                   consecutive_failures, consecutive_data_errors, statistics,
                   issues, created, translation_placeholders, atStart, data,
                   configVars, dataVars, hostVars, flowVars>>

CancelNext == Next \/ CancelCycle

\* The cycles of Spec, any of which the host may cancel.
CancelSpec == Init /\ [][CancelNext]_vars


\* Every step of a cycle in progress: the event loop resumes the cycle's task
\* whenever its await is ready, and every request gets a response, fails or
\* times out (async_timeout bounds each attempt).
CycleStep ==
    \/ \E r \in Responses \cup {"ok_empty"} : Attempt(r)
    \/ Backoff
    \/ EnsureUserInfo
    \/ EnsureChildrenInfo
    \/ ChildrenReturn
    \/ ChildrenRaise
    \/ FetchCall
    \/ FetchReturn
    \/ FetchRaise
    \/ ApiDataError

\* The scheduler calls _async_update_data, a bounded number of times.
StartLiveCycle ==
    /\ statistics.total_updates < MaxLiveCycles
    /\ StartCycle

LiveNext == StartLiveCycle \/ CycleStep

LiveSpec == Init /\ [][LiveNext]_vars /\ WF_vars(CycleStep)

\* --------------------------------- data processing (coordinator.py 221-443)
\* A timestamp field of a raw record: the key is missing, its value is null,
\* a string fromisoformat rejects, or an ISO string for instant t that
\* carries an offset ("aware", a trailing Z included) or none ("naive").
Ts(form, tz, t) == [form |-> form, tz |-> tz, t |-> t]

NoTimestamps == {Ts("missing", "none", 0), Ts("null", "none", 0),
                 Ts("unparsable", "none", 0)}

IsoTimestamps(times) ==
    {Ts("iso", tz, t) : tz \in {"aware", "naive"}, t \in times}

EventTimes == 0..Day

RawEvents ==
    [start : NoTimestamps \cup IsoTimestamps(EventTimes),
     end : NoTimestamps \cup IsoTimestamps(EventTimes)]

\* All sequences over S of length at most n.
SeqsUpTo(S, n) == UNION {[1..k -> S] : k \in 0..n}

\* datetime.now of the cycle: an instant of today after midnight.
NowInstant == Day - 1

\* now.replace(hour=0, minute=0, second=0, microsecond=0)
TodayStart(now) == now - (now % Day)

\* Due instants from yesterday to the end of the longest lookahead window.
DueTimes == (0 - 1)..(MaxLookahead * Day)

CompletionStatuses == {"null", "Todo", "Done", "Completed"}

RawTasks ==
    [dueDate : NoTimestamps \cup IsoTimestamps(DueTimes),
     setDate : {Ts("unparsable", "none", 0), Ts("iso", "aware", 0)},
     completionStatus : CompletionStatuses]

\* What the try body of the loop of _process_events does with one event:
\* event["start"] and event["end"] are read and parsed in this order; a
\* missing key (KeyError) or a rejected string (ValueError) is caught and
\* the event skipped, a null value has no replace() (AttributeError).
EventStep(e) ==
    CASE e.start.form = "missing" -> "skip"
      [] e.start.form = "null" -> "raise"
      [] e.start.form = "unparsable" -> "skip"
      [] e.end.form = "missing" -> "skip"
      [] e.end.form = "null" -> "raise"
      [] e.end.form = "unparsable" -> "skip"
      [] OTHER -> "keep"

\* The processed event: the parsed datetimes, kept as they are.
ProcessedEvent(e) ==
    [start |-> [tz |-> e.start.tz, t |-> e.start.t],
     end |-> [tz |-> e.end.tz, t |-> e.end.t]]

\* The loop of _process_events from raw event i on.
RECURSIVE EventLoop(_, _, _)
EventLoop(events, i, acc) ==
    IF i > Len(events) THEN [status |-> "ok", value |-> acc]
    ELSE CASE EventStep(events[i]) = "raise" ->
                [status |-> "raised", exc |-> "AttributeError"]
           [] EventStep(events[i]) = "skip" -> EventLoop(events, i + 1, acc)
           [] OTHER ->
                EventLoop(events, i + 1,
                          Append(acc, ProcessedEvent(events[i])))

\* Insertion of x into a list sorted by start, after the entries that do
\* not come later (list.sort is stable).
RECURSIVE InsertByStart(_, _)
InsertByStart(sorted, x) ==
    IF sorted = <<>> THEN <<x>>
    ELSE IF sorted[Len(sorted)].start.t <= x.start.t
    THEN Append(sorted, x)
    ELSE Append(InsertByStart(SubSeq(sorted, 1, Len(sorted) - 1), x),
                sorted[Len(sorted)])

RECURSIVE SortByStart(_)
SortByStart(evs) ==
    IF evs = <<>> THEN <<>>
    ELSE InsertByStart(SortByStart(SubSeq(evs, 1, Len(evs) - 1)),
                       evs[Len(evs)])

\* processed_events.sort(key=start): ordering an offset-aware datetime
\* against a naive one is a TypeError.
MixedStarts(evs) ==
    \E i, j \in 1..Len(evs) : evs[i].start.tz # evs[j].start.tz

\* _process_events
ProcessEvents(events) ==
    LET looped == EventLoop(events, 1, <<>>) IN
    IF looped.status = "raised" THEN looped
    ELSE IF MixedStarts(looped.value)
    THEN [status |-> "raised", exc |-> "TypeError"]
    ELSE [status |-> "ok", value |-> SortByStart(looped.value)]

\* A date field as _process_tasks reads it: the parsed datetime, or None
\* when the field is missing, null or rejected by fromisoformat.
NoDate == [some |-> FALSE, tz |-> "none", t |-> 0]
ParsedDate(ts) ==
    IF ts.form = "iso" THEN [some |-> TRUE, tz |-> ts.tz, t |-> ts.t]
    ELSE NoDate

\* The processed task of one raw task.
ProcessedTask(task) ==
    [due_date |-> ParsedDate(task.dueDate),
     set_date |-> ParsedDate(task.setDate),
     completion_status |-> task.completionStatus,
     raw_data |-> task]

\* Variant of ProcessTasks: a task without a parsed due date is dropped.
ProcessTasksDropUndated(tasks) ==
    LET dated == SelectSeq(tasks, LAMBDA k : k.dueDate.form = "iso") IN
    [i \in 1..Len(dated) |-> ProcessedTask(dated[i])]

\* _process_tasks: nothing in its loop raises for these records.
ProcessTasks(tasks) == [i \in 1..Len(tasks) |-> ProcessedTask(tasks[i])]

\* Variant of DueWithin: the end of the range is included.
DueWithinClosed(task, start, end) ==
    /\ task.dueDate.form = "iso"
    /\ start <= task.dueDate.t
    /\ task.dueDate.t <= end

\* The due date of a raw task lies in [start, end); a naive due date is
\* taken as UTC, a missing, null or rejected one never qualifies.
DueWithin(task, start, end) ==
    /\ task.dueDate.form = "iso"
    /\ start <= task.dueDate.t
    /\ task.dueDate.t < end

\* _filter_tasks_by_date
FilterTasksByDate(tasks, start, end) ==
    ProcessTasks(SelectSeq(tasks, LAMBDA k : DueWithin(k, start, end)))

\* Variant of IsCompleted: the status is compared without lower().
IsCompletedExactCase(status) == status = "completed"

\* completion_status.lower() == "completed"
IsCompleted(status) == status \in {"Completed", "completed", "COMPLETED"}

\* The truthy due dates: the strings.
HasDueString(task) == task.dueDate.form \in {"unparsable", "iso"}

\* _filter_overdue_tasks evaluates completion_status.lower() for every task
\* with a due date string: a null completionStatus has no lower().
OverdueRaises(tasks) ==
    \E i \in 1..Len(tasks) :
        HasDueString(tasks[i]) /\ tasks[i].completionStatus = "null"

IsOverdue(task, now) ==
    /\ task.dueDate.form = "iso"
    /\ ~IsCompleted(task.completionStatus)
    /\ task.dueDate.t < now

\* _filter_overdue_tasks
FilterOverdueTasks(tasks, now) ==
    IF OverdueRaises(tasks)
    THEN [status |-> "raised", exc |-> "AttributeError"]
    ELSE [status |-> "ok",
          value |-> ProcessTasks(SelectSeq(tasks,
                                           LAMBDA k : IsOverdue(k, now)))]

\* The "tasks" entry of _fetch_child_data's result, built in the order all,
\* due_today, upcoming, overdue.
BucketTasks(tasks, now, lookahead) ==
    LET today_start == TodayStart(now)
        overdue == FilterOverdueTasks(tasks, now)
    IN  IF overdue.status = "raised" THEN overdue
        ELSE [status |-> "ok",
              all |-> ProcessTasks(tasks),
              due_today |-> FilterTasksByDate(tasks, today_start,
                                              today_start + Day),
              upcoming |-> FilterTasksByDate(tasks, now,
                                             today_start + lookahead * Day),
              overdue |-> overdue.value]

\* The identity dict: absent (None), or a guid with optional name fields,
\* "none" standing for a field that is missing or null.
NoUser == [present |-> FALSE, guid |-> UserGuid, name |-> "none",
           fullname |-> "none", username |-> "none"]

UserInfos ==
    {NoUser} \cup
    [present : {TRUE}, guid : {UserGuid}, name : {"none", "user name"},
     fullname : {"none", "user fullname"},
     username : {"none", "user username"}]

ChildEntries ==
    [guid : 0..MaxChildren, name : {"none", "child name"},
     fullname : {"none", "child fullname"}]

\* _children_info: None, or a list of entries.
ChildrenInfos ==
    [present : {FALSE}, list : {<<>>}] \cup
    [present : {TRUE}, list : SeqsUpTo(ChildEntries, MaxChildren)]

\* a or b
Or(a, b) == IF a # "none" THEN a ELSE b

\* What _extract_child_name returns: a name, the guid, or None.
NameOf(str) ==
    IF str = "none" THEN [kind |-> "null", name |-> "none", guid |-> UserGuid]
    ELSE [kind |-> "name", name |-> str, guid |-> UserGuid]
GuidName(g) == [kind |-> "guid", name |-> "none", guid |-> g]

\* Indices of the children-list entries with the guid.
Matches(guid, children) ==
    {i \in 1..Len(children.list) : children.list[i].guid = guid}

Min(S) == CHOOSE x \in S : \A y \in S : x <= y

\* _extract_child_name: each branch returns whatever its expression gives.
ExtractChildName(guid, user, children) ==
    IF user.present /\ guid = user.guid
    THEN NameOf(Or(user.name, Or(user.fullname, user.username)))
    ELSE IF Matches(guid, children) # {}
    THEN LET child == children.list[Min(Matches(guid, children))]
         IN  NameOf(Or(child.name, child.fullname))
    ELSE GuidName(guid)

\* The calls of the data processing, with their arguments.
EventCalls == [fn : {"events"}, events : SeqsUpTo(RawEvents, MaxEvents)]

TaskCalls == [fn : {"tasks"}, tasks : SeqsUpTo(RawTasks, MaxTasks),
              now : {NowInstant}, lookahead : 1..MaxLookahead]

NameCalls == [fn : {"name"}, guid : 0..MaxChildren, user : UserInfos,
              children : ChildrenInfos]

\* A child element of a decoded document: not there, there without text,
\* or there with text that int() rejects or accepts.
Elements == {"missing", "empty", "word", "number"}

\* elem.text
TextOf(elem) == IF elem = "empty" THEN "None" ELSE elem

Raised(exc) == [status |-> "raised", exc |-> exc]

\* The school directory document: whether it parses, its exists attribute
\* and its child elements.
SchoolDocuments ==
    [xml : BOOLEAN, exists : {"true", "false"}, name : Elements,
     installationId : Elements, address : Elements]

\* The second try statement of get_school_info.
DecodeSchool(doc) ==
    IF ~doc.xml THEN Raised("FireflyDataError")
    ELSE IF doc.exists = "false" THEN Raised("FireflySchoolNotFoundError")
    ELSE IF doc.address = "missing" THEN Raised("FireflyDataError")
    ELSE IF doc.name = "missing" \/ doc.installationId = "missing"
    THEN Raised("FireflyDataError")
    ELSE [status |-> "ok",
          value |-> [name |-> TextOf(doc.name),
                     id |-> TextOf(doc.installationId),
                     host |-> TextOf(doc.address)]]

\* The API version document.
VersionDocuments ==
    [xml : BOOLEAN, majorVersion : Elements, minorVersion : Elements,
     incrementVersion : Elements]

\* The second try statement of get_api_version; int() raises ValueError.
DecodeVersion(doc) ==
    LET elems == {doc.majorVersion, doc.minorVersion, doc.incrementVersion}
    IN  IF ~doc.xml THEN Raised("FireflyDataError")
        ELSE IF "missing" \in elems THEN Raised("FireflyDataError")
        ELSE IF "empty" \in elems THEN Raised("FireflyDataError")
        ELSE IF "word" \in elems THEN Raised("FireflyDataError")
        ELSE [status |-> "ok",
              value |-> [major |-> TextOf(doc.majorVersion),
                         minor |-> TextOf(doc.minorVersion),
                         increment |-> TextOf(doc.incrementVersion)]]

\* period of _get_events_rest_api; timedelta.days is the floor of the
\* difference in whole days.
EventPeriod(start, end) ==
    LET days_diff == (end - start) \div Day IN
    IF days_diff <= 1 THEN "day" ELSE "week"

\* Instants a requested range starts and ends at.
RangeTimes == 0..((MaxLookahead + 2) * Day)

PeriodCalls == [fn : {"period"}, start : RangeTimes, end : RangeTimes]

\* The events of a list of start instants that start on the day beginning
\* at day_start.
StartingOn(starts, day_start) ==
    SelectSeq(starts, LAMBDA t : day_start <= t /\ t < day_start + Day)

\* coordinator.data: None before the first successful cycle, afterwards the
\* dict _async_update_data returned, the processed events of a child being
\* under children_data.
Snapshots ==
    [published : BOOLEAN, week : SeqsUpTo(EventTimes, MaxEvents)]

\* The keys of the dict _async_update_data returns.
SnapshotKeys == {"user_info", "children_guids", "children_data",
                 "last_updated"}

\* get_events_for_day
GetEventsForDay(snapshot, target_date, now) ==
    LET day_start == TodayStart(target_date)
        today == TodayStart(now)
    IN  IF ~snapshot.published \/ "events" \notin SnapshotKeys THEN <<>>
        ELSE IF day_start = today THEN StartingOn(snapshot.week, today)
        ELSE StartingOn(snapshot.week, day_start)

DayCalls == [fn : {"events_for_day"}, data : Snapshots,
             target_date : EventTimes]

SchoolCalls == [fn : {"school"}, doc : SchoolDocuments]

VersionCalls == [fn : {"version"}, doc : VersionDocuments]

DataInit ==
    /\ Constructed
    /\ NotLoaded
    /\ FlowStarted
    /\ api_user_info = "none"
    /\ api_secret = "stored"
    /\ children_guids = <<>>
    /\ call \in EventCalls \cup TaskCalls \cup NameCalls \cup SchoolCalls
                \cup VersionCalls \cup PeriodCalls \cup DayCalls
    /\ result = NoResult

\* self._process_events(events_today) in _fetch_child_data
ProcessEventsCall ==
    /\ call.fn = "events" /\ result = NoResult
    /\ result' = ProcessEvents(call.events)
    /\ UNCHANGED <<call, clientVars, coordVars, configVars, hostVars,
                   flowVars>>

\* The tasks buckets in _fetch_child_data
BucketTasksCall ==
    /\ call.fn = "tasks" /\ result = NoResult
    /\ result' = BucketTasks(call.tasks, call.now, call.lookahead)
    /\ UNCHANGED <<call, clientVars, coordVars, configVars, hostVars,
                   flowVars>>

\* self._extract_child_name(child_guid) in _fetch_child_data
ExtractChildNameCall ==
    /\ call.fn = "name" /\ result = NoResult
    /\ result' = [status |-> "ok",
                  value |-> ExtractChildName(call.guid, call.user,
                                             call.children)]
    /\ UNCHANGED <<call, clientVars, coordVars, configVars, hostVars,
                   flowVars>>

\* get_school_info once the document has been received
DecodeSchoolCall ==
    /\ call.fn = "school" /\ result = NoResult
    /\ result' = DecodeSchool(call.doc)
    /\ UNCHANGED <<call, clientVars, coordVars, configVars, hostVars,
                   flowVars>>

\* get_api_version once the document has been received
DecodeVersionCall ==
    /\ call.fn = "version" /\ result = NoResult
    /\ result' = DecodeVersion(call.doc)
    /\ UNCHANGED <<call, clientVars, coordVars, configVars, hostVars,
                   flowVars>>

\* _get_events_rest_api up to the choice of the url
EventPeriodCall ==
    /\ call.fn = "period" /\ result = NoResult
    /\ result' = [status |-> "ok",
                  value |-> EventPeriod(call.start, call.end)]
    /\ UNCHANGED <<call, clientVars, coordVars, configVars, hostVars,
                   flowVars>>

\* coordinator.get_events_for_day(target_date) on the snapshot at hand
GetEventsForDayCall ==
    /\ call.fn = "events_for_day" /\ result = NoResult
    /\ result' = [status |-> "ok",
                  value |-> GetEventsForDay(call.data, call.target_date,
                                            NowInstant)]
    /\ UNCHANGED <<call, clientVars, coordVars, configVars, hostVars,
                   flowVars>>

DataNext ==
    \/ GetEventsForDayCall
    \/ EventPeriodCall
    \/ ProcessEventsCall
    \/ BucketTasksCall
    \/ ExtractChildNameCall
    \/ DecodeSchoolCall
    \/ DecodeVersionCall

DataSpec == DataInit /\ [][DataNext]_vars

\* ------------------------------------------- the client's session (api.py)
\* Payloads parse_authentication_response rejects: an empty string, a
\* document that is not XML, one without a secret element, one without a
\* user element, one whose secret element has no text.
RejectedPayloads ==
    [kind : {"empty", "bad_xml", "no_secret", "no_user", "empty_secret"},
     secret : {"none"}, role : {"none"}]

\* Payloads it accepts: the secret and the role of the user element.
TokenPayloads == [kind : {"token"}, secret : {"secret1", "secret2"},
                  role : {"student", "parent"}]

\* Variant of SessionAfterParse: the secret is stored as soon as the secret
\* element is found, before its text is checked.
SessionAfterParseEarlyStore(payload, session) ==
    IF payload.kind = "empty_secret"
    THEN [session EXCEPT !.secret = "None"]
    ELSE IF payload \in RejectedPayloads THEN session
    ELSE [secret |-> payload.secret, user_info |-> payload.role]

\* _secret and _user_info after parse_authentication_response: the two
\* assignments follow every raise.
SessionAfterParse(payload, session) ==
    IF payload \in RejectedPayloads THEN session
    ELSE [secret |-> payload.secret, user_info |-> payload.role]

\* What parse_authentication_response returns or raises.
ParseResult(payload) ==
    IF payload \in RejectedPayloads
    THEN Raised("FireflyAuthenticationError")
    ELSE [status |-> "ok", value |-> payload]

\* parse_authentication_response; it awaits nothing, so it runs whole
\* wherever a fetch of another task stands.
ParseAuthenticationResponse(payload) ==
    /\ payload \in RejectedPayloads \cup TokenPayloads
    /\ call' = [fn |-> "parse", payload |-> payload]
    /\ result' = ParseResult(payload)
    /\ LET after == SessionAfterParse(payload,
                        [secret |-> api_secret, user_info |-> api_user_info])
       IN  /\ api_secret' = after.secret
           /\ api_user_info' = after.user_info
    /\ UNCHANGED <<api_session, children_guids, clientVars, coordVars,
                   hostVars, flowVars>>

\* A caller awaits get_children_info's query, get_events or get_tasks.
SessionFetch(kind) ==
    /\ opPc = "idle"
    /\ kind \in RetryKinds
    /\ StartOp(kind)
    /\ UNCHANGED <<coordVars, configVars, dataVars, hostVars, flowVars>>

\* The caller takes what the fetch returned or raised.
SessionFetchDone ==
    /\ opPc \in {"returned", "raised"}
    /\ call' = [fn |-> "fetch", kind |-> opKind]
    /\ result' = IF opPc = "raised" THEN Raised(opError)
                 ELSE [status |-> "ok", value |-> opValue]
    /\ ResetOp
    /\ UNCHANGED <<coordVars, configVars, hostVars, flowVars>>

\* The caller's task is cancelled while the fetch waits for a response or
\* sleeps: CancelledError leaves the loop through no except clause.
SessionFetchCancelled ==
    /\ opPc \in {"attempt", "sleep"}
    /\ call' = [fn |-> "fetch", kind |-> opKind]
    /\ result' = Raised("CancelledError")
    /\ ResetOp
    /\ UNCHANGED <<coordVars, configVars, hostVars, flowVars>>

SessionInit ==
    /\ Constructed
    /\ NotLoaded
    /\ FlowStarted
    /\ api_user_info \in {"none", "student", "parent"}
    /\ api_secret \in {"", "stored"}
    /\ children_guids = <<>>
    /\ call = NoCall
    /\ result = NoResult

SessionNext ==
    \/ \E payload \in RejectedPayloads \cup TokenPayloads :
          ParseAuthenticationResponse(payload)
    \/ \E kind \in RetryKinds : SessionFetch(kind)
    \/ \E r \in Responses \cup {"ok_empty"} : Attempt(r)
    \/ Backoff
    \/ SessionFetchDone
    \/ SessionFetchCancelled

SessionSpec == SessionInit /\ [][SessionNext]_vars

\* ------------------------------------------ setup and unload (__init__.py)
\* What the one request of verify_credentials can come back with: a 200 body
\* with valid true, valid false or no valid key, status 401, a
\* ClientResponseError carrying status 401, another status of 400 or more,
\* a timeout, a transport error, a 200 body that is not JSON.
VerifyResponses == {"valid", "invalid", "no_flag", "401",
                    "response_error_401", "http_error", "timeout",
                    "client_error", "bad_json"}

Returns(v) == [do |-> "return", value |-> v, err |-> "none"]
Raises(err) == [do |-> "raise", value |-> FALSE, err |-> err]

\* Variant of VerifyOutcome: a status 401 is an authentication error like
\* the other statuses.
VerifyOutcome401Raises(r) ==
    CASE r = "valid" -> Returns(TRUE)
      [] r \in {"invalid", "no_flag"} -> Returns(FALSE)
      [] r \in {"401", "response_error_401", "http_error"} ->
            Raises("FireflyAuthenticationError")
      [] r = "timeout" -> Raises("FireflyConnectionError")
      [] r = "client_error" -> Raises("FireflyConnectionError")
      [] OTHER -> Raises("ValueError")

\* verify_credentials, by what its request got: the body of the try and the
\* except clauses in order (raise_for_status raises ClientResponseError).
VerifyOutcome(r) ==
    CASE r = "401" -> Returns(FALSE)
      [] r = "valid" -> Returns(TRUE)
      [] r \in {"invalid", "no_flag"} -> Returns(FALSE)
      [] r = "timeout" -> Raises("FireflyConnectionError")
      [] r = "response_error_401" -> Returns(FALSE)
      [] r = "http_error" -> Raises("FireflyAuthenticationError")
      [] r = "client_error" -> Raises("FireflyConnectionError")
      [] OTHER -> Raises("ValueError")

\* The entry verify_credentials leaves in a log of calls: one request.
VerifyEntry(r) ==
    LET o == VerifyOutcome(r) IN
    [call |-> "verify_credentials", response |-> r, requests |-> 1,
     outcome |-> IF o.do = "raise" THEN o.err
                 ELSE IF o.value THEN "True" ELSE "False"]

VersionResponses == {"ok", "http_error", "timeout", "client_error", "bad_xml"}

\* get_api_version, by what its one request got.
VersionOutcome(r) ==
    CASE r = "ok" -> Returns(TRUE)
      [] r = "bad_xml" -> Raises("FireflyDataError")
      [] OTHER -> Raises("FireflyConnectionError")

\* A step of a setup that sends no request.
Step(name, outcome) ==
    [call |-> name, response |-> "none", requests |-> 0, outcome |-> outcome]

\* The except clauses around the checks of async_setup_entry.
SetupRaisedFor(err) ==
    CASE err \in {"FireflyTokenExpiredError", "FireflyAuthenticationError"} ->
            "ConfigEntryAuthFailed"
      [] OTHER -> "ConfigEntryNotReady"

\* async_setup_entry raises exc: the host leaves the entry not loaded.
SetupFail(e, entry, exc) ==
    /\ setupLog' = [setupLog EXCEPT ![e] = Append(@, entry)]
    /\ setupResult' = [setupResult EXCEPT ![e] = exc]
    /\ entryPc' = [entryPc EXCEPT ![e] = "not_loaded"]

\* The host calls async_setup_entry for an entry that is not loaded; the
\* client is constructed and verify_credentials awaited.
SetupStart(e) ==
    /\ entryPc[e] = "not_loaded"
    /\ entrySetups[e] < MaxSetups
    /\ entrySetups' = [entrySetups EXCEPT ![e] = @ + 1]
    /\ setupLog' = [setupLog EXCEPT ![e] = <<>>]
    /\ setupResult' = [setupResult EXCEPT ![e] = "none"]
    /\ entryPc' = [entryPc EXCEPT ![e] = "verify"]
    /\ UNCHANGED <<hass_domain, registry, shutdowns, unloadResult,
                   clientVars, coordVars, configVars, dataVars, flowVars>>

\* Variant of SetupVerify: the API version is checked whatever
\* verify_credentials returned.
SetupVerifyIgnoresFalse(e, r) ==
    /\ entryPc[e] = "verify"
    /\ r \in VerifyResponses
    /\ LET o == VerifyOutcome(r) IN
         IF o.do = "return"
         THEN /\ setupLog' = [setupLog EXCEPT ![e] = Append(@, VerifyEntry(r))]
              /\ entryPc' = [entryPc EXCEPT ![e] = "version"]
              /\ UNCHANGED setupResult
         ELSE SetupFail(e, VerifyEntry(r), SetupRaisedFor(o.err))
    /\ UNCHANGED <<entrySetups, hass_domain, registry, shutdowns,
                   unloadResult, clientVars, coordVars, configVars,
                   dataVars, flowVars>>

\* verify_credentials answers.
SetupVerify(e, r) ==
    /\ entryPc[e] = "verify"
    /\ r \in VerifyResponses
    /\ LET o == VerifyOutcome(r) IN
         IF o.do = "return" /\ o.value
         THEN /\ setupLog' = [setupLog EXCEPT ![e] = Append(@, VerifyEntry(r))]
              /\ entryPc' = [entryPc EXCEPT ![e] = "version"]
              /\ UNCHANGED setupResult
         ELSE IF o.do = "return"
         THEN SetupFail(e, VerifyEntry(r), "ConfigEntryAuthFailed")
         ELSE SetupFail(e, VerifyEntry(r), SetupRaisedFor(o.err))
    /\ UNCHANGED <<entrySetups, hass_domain, registry, shutdowns,
                   unloadResult, clientVars, coordVars, configVars,
                   dataVars, flowVars>>

\* get_api_version answers; after it the coordinator is constructed and its
\* first refresh awaited.
SetupVersion(e, r) ==
    /\ entryPc[e] = "version"
    /\ r \in VersionResponses
    /\ LET o == VersionOutcome(r)
           entry == [call |-> "get_api_version", response |-> r,
                     requests |-> 1,
                     outcome |-> IF o.do = "raise" THEN o.err ELSE "ok"]
       IN  IF o.do = "return"
           THEN /\ setupLog' = [setupLog EXCEPT ![e] =
                                   @ \o <<entry, Step("coordinator", "ok")>>]
                /\ entryPc' = [entryPc EXCEPT ![e] = "refresh"]
                /\ UNCHANGED setupResult
           ELSE SetupFail(e, entry, SetupRaisedFor(o.err))
    /\ UNCHANGED <<entrySetups, hass_domain, registry, shutdowns,
                   unloadResult, clientVars, coordVars, configVars,
                   dataVars, flowVars>>

\* How the first refresh ends: the cycle returns data, or the exception
\* it raised reaches async_setup_entry.
RefreshOutcomes == {"ok"} \cup {RaisedFor(err).exc : err \in ErrorTypes}

\* async_config_entry_first_refresh returns or raises; when it returns the
\* coordinator is stored under the entry id and the platforms are forwarded.
SetupFirstRefresh(e, outcome) ==
    /\ entryPc[e] = "refresh"
    /\ outcome \in RefreshOutcomes
    /\ IF outcome = "ok"
       THEN /\ setupLog' = [setupLog EXCEPT ![e] =
                               @ \o <<Step("first_refresh", "ok"),
                                      Step("store", "ok")>>]
            /\ hass_domain' = TRUE
            /\ registry' = [registry EXCEPT ![e] = entrySetups[e]]
            /\ entryPc' = [entryPc EXCEPT ![e] = "forward"]
            /\ UNCHANGED setupResult
       ELSE /\ SetupFail(e, Step("first_refresh", outcome),
                         "ConfigEntryNotReady")
            /\ UNCHANGED <<hass_domain, registry>>
    /\ UNCHANGED <<entrySetups, shutdowns, unloadResult, clientVars,
                   coordVars, configVars, dataVars, flowVars>>

\* async_forward_entry_setups returns or raises; nothing in
\* async_setup_entry catches what it raises.
SetupForward(e, ok) ==
    /\ entryPc[e] = "forward"
    /\ IF ok
       THEN /\ setupLog' = [setupLog EXCEPT ![e] =
                               Append(@, Step("forward", "ok"))]
            /\ setupResult' = [setupResult EXCEPT ![e] = "True"]
            /\ entryPc' = [entryPc EXCEPT ![e] = "loaded"]
       ELSE SetupFail(e, Step("forward", "raised"), "Exception")
    /\ UNCHANGED <<entrySetups, hass_domain, registry, shutdowns,
                   unloadResult, clientVars, coordVars, configVars,
                   dataVars, flowVars>>

\* The host calls async_unload_entry for a loaded entry:
\* async_unload_platforms is awaited.
UnloadStart(e) ==
    /\ entryPc[e] = "loaded"
    /\ entryPc' = [entryPc EXCEPT ![e] = "unload_platforms"]
    /\ shutdowns' = [shutdowns EXCEPT ![e] = <<>>]
    /\ unloadResult' = [unloadResult EXCEPT ![e] = "none"]
    /\ UNCHANGED <<entrySetups, setupLog, setupResult, hass_domain,
                   registry, clientVars, coordVars, configVars, dataVars,
                   flowVars>>

\* async_unload_platforms answers: when it succeeded the coordinator is
\* popped and its async_shutdown awaited, otherwise False is returned.
UnloadPlatforms(e, unload_ok) ==
    /\ entryPc[e] = "unload_platforms"
    /\ IF unload_ok
       THEN /\ registry' = [registry EXCEPT ![e] = 0]
            /\ shutdowns' = [shutdowns EXCEPT ![e] = Append(@, "awaited")]
            /\ entryPc' = [entryPc EXCEPT ![e] = "shutdown"]
            /\ UNCHANGED unloadResult
       ELSE /\ unloadResult' = [unloadResult EXCEPT ![e] = "False"]
            /\ entryPc' = [entryPc EXCEPT ![e] = "failed_unload"]
            /\ UNCHANGED <<registry, shutdowns>>
    /\ UNCHANGED <<entrySetups, setupLog, setupResult, hass_domain,
                   clientVars, coordVars, configVars, dataVars, flowVars>>

\* Variant of DomainKept: the DOMAIN key is always removed.
DomainKeptNever(reg) == FALSE

\* if not hass.data[DOMAIN]: hass.data.pop(DOMAIN)
DomainKept(reg) == \E f \in Entries : reg[f] # 0

\* async_shutdown returns or raises (caught); then the clean-up of
\* hass.data, whose hass.data[DOMAIN] is a KeyError when another entry's
\* unload has removed the key meanwhile.
UnloadShutdown(e, raised) ==
    /\ entryPc[e] = "shutdown"
    /\ raised \in BOOLEAN
    /\ shutdowns' = [shutdowns EXCEPT ![e] =
                         [@ EXCEPT ![Len(@)] =
                             IF raised THEN "raised" ELSE "returned"]]
    /\ IF hass_domain
       THEN /\ hass_domain' = DomainKept(registry)
            /\ unloadResult' = [unloadResult EXCEPT ![e] = "True"]
            /\ entryPc' = [entryPc EXCEPT ![e] = "not_loaded"]
       ELSE /\ hass_domain' = hass_domain
            /\ unloadResult' = [unloadResult EXCEPT ![e] = "KeyError"]
            /\ entryPc' = [entryPc EXCEPT ![e] = "failed_unload"]
    /\ UNCHANGED <<entrySetups, setupLog, setupResult, registry,
                   clientVars, coordVars, configVars, dataVars, flowVars>>

HostInit ==
    /\ Constructed
    /\ NotLoaded
    /\ FlowStarted
    /\ api_user_info = "none"
    /\ api_secret = "stored"
    /\ children_guids = <<>>
    /\ call = NoCall
    /\ result = NoResult

\* async_reload_entry after its async_unload_entry returned False: the
\* result is not looked at and async_setup_entry is awaited.
ReloadSetup(e) ==
    /\ entryPc[e] = "failed_unload"
    /\ unloadResult[e] = "False"
    /\ entrySetups[e] < MaxSetups
    /\ entrySetups' = [entrySetups EXCEPT ![e] = @ + 1]
    /\ setupLog' = [setupLog EXCEPT ![e] = <<>>]
    /\ setupResult' = [setupResult EXCEPT ![e] = "none"]
    /\ entryPc' = [entryPc EXCEPT ![e] = "verify"]
    /\ UNCHANGED <<hass_domain, registry, shutdowns, unloadResult,
                   clientVars, coordVars, configVars, dataVars, flowVars>>

HostNext ==
    \E e \in Entries :
        \/ SetupStart(e)
        \/ ReloadSetup(e)
        \/ \E r \in VerifyResponses : SetupVerify(e, r)
        \/ \E r \in VersionResponses : SetupVersion(e, r)
        \/ \E outcome \in RefreshOutcomes : SetupFirstRefresh(e, outcome)
        \/ \E ok \in BOOLEAN : SetupForward(e, ok)
        \/ UnloadStart(e)
        \/ \E ok \in BOOLEAN : UnloadPlatforms(e, ok)
        \/ \E raised \in BOOLEAN : UnloadShutdown(e, raised)

HostSpec == HostInit /\ [][HostNext]_vars

\* ------------------------------------------- config flow (config_flow.py)
\* What get_school_info and the unique id check of async_step_user come to.
SchoolOutcomes == {"ok", "school_disabled", "school_not_found",
                   "cannot_connect", "unknown", "already_configured"}

\* The auth_response submitted: one parse_authentication_response rejects,
\* or a document whose user has the role student or another role.
AuthResponses == {"invalid", "student", "parent"}

\* The except clauses of async_step_auth, FireflyTokenExpiredError being a
\* FireflyAuthenticationError.
FlowErrorFor(err) ==
    CASE err \in {"FireflyAuthenticationError", "FireflyTokenExpiredError"} ->
            "invalid_auth"
      [] err = "FireflyConnectionError" -> "cannot_connect"
      [] OTHER -> "unknown"

\* errors["base"] after the try statement of async_step_user.  The school
\* configured already makes _abort_if_unique_id_configured raise AbortFlow
\* inside the try block, where  except Exception  takes it.
UserStepError(o) ==
    CASE o = "ok" -> "none"
      [] o = "already_configured" -> "unknown"
      [] OTHER -> o

\* async_step_user with input: without errors the client is created and the
\* auth form shown, otherwise the user form is shown again with the error.
FlowUserSubmit(o) ==
    /\ flowStep = "user"
    /\ o \in SchoolOutcomes
    /\ flowUserInput' = o
    /\ flowErrors' = UserStepError(o)
    /\ flowStep' = IF flowErrors' = "none" THEN "auth" ELSE "user"
    /\ UNCHANGED <<flowLog, flowEntry, submissions, clientVars, coordVars,
                   configVars, dataVars, hostVars>>

\* The auth form is shown again with the error.
AuthFormError(log, error) ==
    /\ flowLog' = log
    /\ flowErrors' = error
    /\ flowStep' = "auth"
    /\ UNCHANGED flowEntry

\* async_create_entry
CreateEntry(log, children) ==
    /\ flowLog' = log
    /\ flowErrors' = "none"
    /\ flowStep' = "done"
    /\ flowEntry' = [created |-> TRUE, children |-> children]

\* async_step_auth with input, up to the entry for a student, an error, or
\* the await on the GraphQL query of get_children_info.
FlowAuthSubmit(doc, r) ==
    /\ flowStep = "auth"
    /\ submissions < MaxSubmissions
    /\ doc \in AuthResponses /\ r \in VerifyResponses
    /\ submissions' = submissions + 1
    /\ LET parsed == <<Step("parse_authentication_response", "ok")>>
           verified == Append(parsed, VerifyEntry(r))
           v == VerifyOutcome(r)
       IN  IF doc = "invalid"
           THEN /\ AuthFormError(<<Step("parse_authentication_response",
                                        "FireflyAuthenticationError")>>,
                                 FlowErrorFor("FireflyAuthenticationError"))
                /\ UNCHANGED <<api_user_info, api_secret, clientVars>>
           ELSE /\ api_user_info' = doc
                /\ api_secret' = "secret1"
                /\ IF v.do = "raise"
                   THEN /\ AuthFormError(verified, FlowErrorFor(v.err))
                        /\ UNCHANGED clientVars
                   ELSE IF ~v.value
                   THEN /\ AuthFormError(verified, "invalid_auth")
                        /\ UNCHANGED clientVars
                   ELSE IF doc = "student"
                   THEN /\ CreateEntry(verified \o
                                       <<Step("get_user_info", "ok"),
                                         Step("get_children_info", "ok")>>,
                                       "self")
                        /\ UNCHANGED clientVars
                   ELSE /\ flowLog' = Append(verified,
                                             Step("get_user_info", "ok"))
                        /\ flowStep' = "auth_children"
                        /\ StartOp("graphql")
                        /\ UNCHANGED <<flowErrors, flowEntry>>
    /\ UNCHANGED <<flowUserInput, api_session, children_guids, coordVars,
                   dataVars, hostVars>>

\* The query of get_children_info returned: the entry is created.
FlowChildrenReturn ==
    /\ flowStep = "auth_children" /\ opPc = "returned"
    /\ CreateEntry(Append(flowLog, Step("get_children_info", "ok")), opValue)
    /\ ResetOp
    /\ UNCHANGED <<flowUserInput, submissions, coordVars, configVars,
                   dataVars, hostVars>>

\* Variant of FlowChildrenRaise: a failed children query is passed over and
\* the entry created without children.
FlowChildrenRaiseIgnored ==
    /\ flowStep = "auth_children" /\ opPc = "raised"
    /\ CreateEntry(Append(flowLog, Step("get_children_info", opError)),
                   "no_children")
    /\ ResetOp
    /\ UNCHANGED <<flowUserInput, submissions, coordVars, configVars,
                   dataVars, hostVars>>

\* The query of get_children_info raised.
FlowChildrenRaise ==
    /\ flowStep = "auth_children" /\ opPc = "raised"
    /\ AuthFormError(Append(flowLog, Step("get_children_info", opError)),
                     FlowErrorFor(opError))
    /\ ResetOp
    /\ UNCHANGED <<flowUserInput, submissions, coordVars, configVars,
                   dataVars, hostVars>>

FlowInit ==
    /\ Constructed
    /\ NotLoaded
    /\ FlowStarted
    /\ api_user_info = "none"
    /\ api_secret = ""
    /\ children_guids = <<>>
    /\ call = NoCall
    /\ result = NoResult

FlowNext ==
    \/ \E o \in SchoolOutcomes : FlowUserSubmit(o)
    \/ \E doc \in AuthResponses, r \in VerifyResponses : FlowAuthSubmit(doc, r)
    \/ \E r \in Responses \cup {"ok_empty"} : Attempt(r)
    \/ Backoff
    \/ FlowChildrenReturn
    \/ FlowChildrenRaise

FlowSpec == FlowInit /\ [][FlowNext]_vars

\* ------------------------------------------------------------- properties
Last(h) == h[Len(h)]

AllTimeouts == \A i \in 1..Len(responses) : responses[i] = "timeout"

\* C1: a retrying operation (GraphQL query, events fetch, tasks fetch) whose
\* every attempt times out sends exactly MAX_RETRIES = 3 requests and then
\* raises FireflyConnectionError; it never sends a fourth request and never
\* returns a value.
C1_RetryBound ==
    (opKind \in RetryKinds /\ AllTimeouts) =>
        /\ requests <= MAX_RETRIES
        /\ requests = Len(responses)
        /\ opPc # "returned"
        /\ opPc = "raised" =>
              requests = MAX_RETRIES /\ opError = "FireflyConnectionError"
        /\ requests = MAX_RETRIES => opPc = "raised"

C1_Witness ==
    /\ opKind = "events" /\ opPc = "raised"
    /\ responses = <<"timeout", "timeout", "timeout">>
    /\ requests = 3 /\ opError = "FireflyConnectionError"

\* The operation in flight stopped at the request answered with status r,
\* raising err: that request is its last, and each request before it was
\* followed by one backoff sleep, the answered one by none.
StopsAt(r, err) ==
    \A i \in 1..Len(responses) :
        responses[i] = r =>
            /\ i = Len(responses)
            /\ requests = i
            /\ opPc = "raised"
            /\ opError = err
            /\ Len(sleeps) = i - 1

\* C2: as soon as any attempt of an authenticated operation receives HTTP
\* 401 the operation raises FireflyTokenExpiredError, with no further request
\* and no backoff sleep; a 401 on the first attempt means one request.
C2_TokenExpiredNoRetry ==
    opKind \in RetryKinds => StopsAt("401", "FireflyTokenExpiredError")

C2_Witness ==
    /\ opKind = "tasks" /\ opPc = "raised"
    /\ responses = <<"timeout", "401">>
    /\ sleeps = <<1>>
    /\ opError = "FireflyTokenExpiredError"

\* C3: an attempt of an authenticated operation that receives HTTP 429 makes
\* the operation raise FireflyRateLimitError at once, with no further request
\* and no backoff sleep.
C3_RateLimitNoRetry ==
    opKind \in RetryKinds => StopsAt("429", "FireflyRateLimitError")

C3_Witness ==
    /\ opKind = "graphql" /\ opPc = "raised"
    /\ responses = <<"429">>
    /\ requests = 1 /\ sleeps = <<>>
    /\ opError = "FireflyRateLimitError"

Creates(i, id) == id \in Range(history[i].created)

\* C4: from a coordinator with no consecutive failures, three consecutive
\* cycles failing with FireflyConnectionError create the connection_error
\* issue exactly once, in the third cycle, and no other issue.
C4_ConnectionEscalation ==
    \A i \in 1..Len(history) :
        (/\ i + 2 <= Len(history)
         /\ history[i].cf = 0
         /\ \A j \in i..(i + 2) : history[j].kind = "FireflyConnectionError")
        => /\ history[i].created = <<>>
           /\ history[i + 1].created = <<>>
           /\ history[i + 2].created = <<"connection_error">>

C4_Witness ==
    /\ Len(history) = 3
    /\ \A j \in 1..3 : history[j].kind = "FireflyConnectionError"
    /\ history[3].created = <<"connection_error">>
    /\ "connection_error" \in issues

\* C5: thresholds are counted per error kind: unexpected_error is created in
\* a cycle only if that cycle and the one before both failed with an
\* unexpected error, connection_error only if that cycle and the two before
\* all failed with FireflyConnectionError.
C5_PerKindThresholds ==
    \A i \in 1..Len(history) :
        /\ Creates(i, "unexpected_error") =>
              /\ i >= 2
              /\ history[i].kind = "UnexpectedError"
              /\ history[i - 1].kind = "UnexpectedError"
        /\ Creates(i, "connection_error") =>
              /\ i >= 3
              /\ \A j \in (i - 2)..i :
                    history[j].kind = "FireflyConnectionError"

AuthKinds == {"FireflyAuthenticationError", "FireflyTokenExpiredError"}

\* C7: every cycle that fails with FireflyAuthenticationError or
\* FireflyTokenExpiredError creates the authentication_error issue in that
\* same cycle, whatever came before; the issue is active when it ends.
C7_AuthImmediate ==
    /\ \A i \in 1..Len(history) :
          history[i].kind \in AuthKinds =>
              history[i].created = <<"authentication_error">>
    /\ (pc = "idle" /\ Len(history) > 0 /\ Last(history).kind \in AuthKinds)
          => "authentication_error" \in issues

C7_Witness ==
    /\ Len(history) = 2
    /\ history[1].kind = "success"
    /\ history[2].kind = "FireflyTokenExpiredError"
    /\ history[2].created = <<"authentication_error">>
    /\ pc = "idle"

SucceededLast == pc = "idle" /\ Len(history) > 0
                 /\ Last(history).kind = "success"

\* C8: after a successful cycle both consecutive-failure counters are 0 and
\* failed_updates and every error_counts entry have the values they had
\* before that cycle.
C8_SuccessResetsConsecutiveOnly ==
    SucceededLast =>
        /\ consecutive_failures = 0
        /\ consecutive_data_errors = 0
        /\ statistics.failed_updates = atStart.failed_updates
        /\ statistics.error_counts = atStart.error_counts

C8_Witness ==
    /\ SucceededLast
    /\ atStart.consecutive_failures > 0
    /\ atStart.consecutive_data_errors > 0
    /\ statistics.failed_updates = 2
    /\ statistics.error_counts["FireflyDataError"] = 1

\* C9: a successful cycle dismisses all five issue ids: after it no issue
\* raised by an earlier cycle is active.
C9_SuccessDismissesAll ==
    SucceededLast => issues \cap IssueIds = {}

C9_Witness ==
    /\ SucceededLast
    /\ Cardinality(atStart.issues) >= 2
    /\ issues = {}

FetchFailed == pc = "fetch_call" /\ opPc = "raised"

\* C10: the snapshot is all-or-nothing: when an events or tasks fetch of any
\* child fails the cycle fails and the published snapshot stays as it was,
\* and every snapshot that is published holds the data of all tracked
\* children.
C10_AllOrNothing ==
    [][/\ FetchFailed =>
             /\ pc' = "idle"
             /\ lastResult'.exc # "none"
             /\ data' = data
       /\ data' # data => data'.children_data = TargetGuids]_vars

C10_Witness ==
    /\ Len(history) = 2
    /\ history[1].kind = "success"
    /\ history[2].kind = "FireflyConnectionError"
    /\ Len(history[2].fetched) = 1
    /\ Len(TargetGuids) = 2
    /\ data.last_updated = 1
    /\ data.children_data = TargetGuids


ChildrenFetchFailed == pc = "children_call" /\ opPc = "raised"

\* C11: with explicit child guids configured, a failure of the children-list
\* fetch of any kind never aborts the cycle: the cycle goes on to the
\* per-child fetches with the configured guids.
C11_ChildrenFailureNonFatal ==
    [][ChildrenFetchFailed =>
           /\ pc' = "fetch"
           /\ history' = history
           /\ statistics'.failed_updates = statistics.failed_updates]_vars

Fetching == pc # "idle"

\* C16: every started cycle eventually leaves Fetching and ends as exactly
\* one finished cycle, Succeeded or Failed, when every request eventually
\* gets a response, fails or times out.
C16_CycleTerminates ==
    \A n \in 0..(MaxLiveCycles - 1) :
        (Fetching /\ Len(history) = n)
            ~> (~Fetching /\ Len(history) = n + 1
                /\ (lastResult.exc = "none") = (Last(history).kind = "success"))

C16_Witness ==
    /\ ~Fetching
    /\ Len(history) = 2
    /\ history[1].kind = "FireflyConnectionError"
    /\ history[2].kind = "success"
    /\ lastResult.exc = "none"

\* C17: user identity is fetched at most once: after a get_user_info call
\* that returned, no cycle calls get_user_info again, and every snapshot
\* carries the cached identity.
C17_UserInfoFetchedOnce ==
    /\ \A i \in 1..Len(user_info_log) :
          user_info_log[i] = "returned" => i = Len(user_info_log)
    /\ data # NoData => data.user_info = "user" /\ user_info = "user"

C17_Witness ==
    /\ Len(history) = 3
    /\ history[1].kind = "success"
    /\ history[2].kind = "FireflyRateLimitError"
    /\ history[3].kind = "success"
    /\ user_info_log = <<"returned">>
    /\ data.last_updated = 3

TokenExpiredRaised == opPc = "raised" /\ opError = "FireflyTokenExpiredError"

AuthFailureSignalled ==
    /\ pc' = "idle"
    /\ lastResult'.exc = "ConfigEntryAuthFailed"
    /\ Last(history').kind # "success"
    /\ "authentication_error" \in Range(created')
    /\ "authentication_error" \in issues'

\* C18 as stated: an HTTP 401 on any authenticated call of a cycle, the
\* children-list query included, ends the cycle Failed with the
\* authentication_error issue created and ConfigEntryAuthFailed raised.
C18_Any401FailsCycle ==
    [][TokenExpiredRaised => AuthFailureSignalled]_vars

\* C18 amended: an HTTP 401 on an events or tasks fetch of a cycle ends the
\* cycle Failed with the authentication_error issue created and
\* ConfigEntryAuthFailed raised; a 401 on the children-list query is caught
\* and the cycle goes on to the per-child fetches.
C18_Fetch401FailsCycle ==
    [][/\ (TokenExpiredRaised /\ pc = "fetch_call") => AuthFailureSignalled
       /\ (TokenExpiredRaised /\ pc = "children_call") =>
              pc' = "fetch" /\ history' = history]_vars

C18_Witness ==
    /\ pc = "idle"
    /\ Len(history) = 2
    /\ history[1].kind = "success"
    /\ history[2].kind = "FireflyTokenExpiredError"
    /\ Len(history[2].fetched) = 1
    /\ lastResult.exc = "ConfigEntryAuthFailed"
    /\ "authentication_error" \in issues


Called(fn) == call.fn = fn /\ result # NoResult

\* C12: malformed per-record data never aborts a cycle: whatever fields of
\* the raw event and task records are missing, null or unparsable, the
\* processing raises nothing.
C12_MalformedNeverAborts ==
    (Called("events") \/ Called("tasks")) => result.status = "ok"

InBucket(bucket, task) == \E j \in 1..Len(bucket) : bucket[j].raw_data = task

Undated(task) == task.dueDate.form # "iso"

\* C13: for every raw task list the all bucket has as many tasks as the
\* list, in its order, however many due or set dates are missing or
\* unparsable; a task without a parsable date is in all with a null date,
\* one without a parsable due date is in none of due_today, upcoming and
\* overdue. Dates never stop the buckets from being built: only a null
\* completionStatus does.
C13_AllKeepsEveryTask ==
    Called("tasks") =>
        /\ result.status = "raised" =>
              \E i \in 1..Len(call.tasks) :
                  call.tasks[i].completionStatus = "null"
        /\ result.status = "ok" =>
              /\ Len(result.all) = Len(call.tasks)
              /\ \A i \in 1..Len(call.tasks) :
                    LET task == call.tasks[i] IN
                    /\ result.all[i].raw_data = task
                    /\ Undated(task) =>
                          /\ result.all[i].due_date = NoDate
                          /\ ~InBucket(result.due_today, task)
                          /\ ~InBucket(result.upcoming, task)
                          /\ ~InBucket(result.overdue, task)
                    /\ task.setDate.form # "iso" =>
                          result.all[i].set_date = NoDate

C13_Witness ==
    /\ Called("tasks")
    /\ result.status = "ok"
    /\ Len(call.tasks) = 2
    /\ call.tasks[1].dueDate.form = "unparsable"
    /\ call.tasks[1].setDate.form = "unparsable"
    /\ call.tasks[2].dueDate.form = "missing"
    /\ Len(result.all) = 2
    /\ result.overdue = <<>>

DueYesterday(task, now) ==
    /\ task.dueDate.form = "iso"
    /\ TodayStart(now) - Day <= task.dueDate.t
    /\ task.dueDate.t < TodayStart(now)

\* The overdue bucket holds the tasks due yesterday with the status in, and
\* none of those due yesterday with the status out.
OverdueScenario(in, out) ==
    (Called("tasks") /\ result.status = "ok") =>
        \A i \in 1..Len(call.tasks) :
            LET task == call.tasks[i] IN
            DueYesterday(task, call.now) =>
                /\ task.completionStatus = in
                      => InBucket(result.overdue, task)
                /\ task.completionStatus = out
                      => ~InBucket(result.overdue, task)

OwnGuid == call.user.present /\ call.guid = call.user.guid

UserName == Or(call.user.name, Or(call.user.fullname, call.user.username))

ChildName ==
    LET named == {i \in Matches(call.guid, call.children) :
                     Or(call.children.list[i].name,
                        call.children.list[i].fullname) # "none"}
    IN  IF named = {} THEN "none"
        ELSE Or(call.children.list[Min(named)].name,
                call.children.list[Min(named)].fullname)

\* C19: the display name follows the fallback chain: for the user's own
\* guid the first available of name, full name, username; otherwise the
\* matching children-list entry's name or full name; otherwise the raw
\* guid. It is never null.
C19_NameFallbackChain ==
    Called("name") =>
        /\ result.value.kind # "null"
        /\ (OwnGuid /\ UserName # "none") => result.value = NameOf(UserName)
        /\ (~OwnGuid /\ ChildName # "none")
              => result.value.kind = "name"
        /\ (~(OwnGuid /\ UserName # "none") /\ ChildName = "none")
              => result.value = GuidName(call.guid)

\* C20: event normalization never outputs an event whose end is before its
\* start.
C20_EndNotBeforeStart ==
    (Called("events") /\ result.status = "ok") =>
        \A i \in 1..Len(result.value) :
            result.value[i].start.t <= result.value[i].end.t

\* C22: a GraphQL response with HTTP 200 whose body has an "errors" entry
\* makes the query raise FireflyAPIError after that single request: the
\* request is the operation's last, no backoff follows it, and the operation
\* returns no data.
C22_GraphqlErrorsNotRetried ==
    opKind \in RetryKinds =>
        /\ StopsAt("graphql_errors", "FireflyAPIError")
        /\ (\E i \in 1..Len(responses) : responses[i] = "graphql_errors")
              => opValue = "none"

C22_Witness ==
    /\ pc = "children_call"
    /\ opKind = "graphql" /\ opPc = "raised"
    /\ responses = <<"timeout", "graphql_errors">>
    /\ sleeps = <<1>>
    /\ opError = "FireflyAPIError" /\ opValue = "none"

AllServerErrors ==
    /\ Len(responses) > 0
    /\ \A i \in 1..Len(responses) : responses[i] = "http_error"

\* The operation in flight, answered with a 5xx status every time, is retried
\* like a transport failure: three requests, a backoff after the first two,
\* then FireflyConnectionError.
ServerErrorsRetried ==
    (opKind \in RetryKinds /\ AllServerErrors) =>
        /\ requests <= MAX_RETRIES
        /\ opPc # "returned"
        /\ (opPc = "raised") = (requests = MAX_RETRIES)
        /\ opPc = "raised" =>
              /\ sleeps = <<1, 2>>
              /\ opError = "FireflyConnectionError"

ServerErrorsRaised == AllServerErrors /\ opPc = "raised"

ConnectionFailureCounted ==
    /\ pc' = "idle"
    /\ Last(history').kind = "FireflyConnectionError"
    /\ lastResult'.exc = "UpdateFailed"
    /\ consecutive_failures' = consecutive_failures + 1

\* C23 as stated: every retrying operation answered with a 5xx status on
\* every attempt sends exactly 3 requests with backoff between them and
\* raises FireflyConnectionError, and the cycle then fails with the
\* consecutive-failure counter increased by exactly 1.
C23_ServerErrorsFailCycle ==
    [][/\ ServerErrorsRetried
       /\ ServerErrorsRaised => ConnectionFailureCounted]_vars

\* C23 amended: the same for the events and tasks fetches; when it is the
\* children-list query that raised, the error is caught, the cycle goes on
\* to the per-child fetches and the counter is unchanged.
C23_FetchServerErrorsFailCycle ==
    [][/\ ServerErrorsRetried
       /\ (ServerErrorsRaised /\ pc = "fetch_call")
             => ConnectionFailureCounted
       /\ (ServerErrorsRaised /\ pc = "children_call") =>
             /\ pc' = "fetch"
             /\ history' = history
             /\ consecutive_failures' = consecutive_failures]_vars

C23_Witness ==
    /\ pc = "fetch_call"
    /\ opKind = "tasks" /\ opPc = "raised"
    /\ responses = <<"http_error", "http_error", "http_error">>
    /\ requests = 3 /\ sleeps = <<1, 2>>
    /\ opError = "FireflyConnectionError"
    /\ consecutive_failures = 1

AllTransportFailures ==
    \A i \in 1..Len(responses) : responses[i] \in {"timeout", "client_error"}

RECURSIVE SumSeq(_)
SumSeq(s) == IF s = <<>> THEN 0 ELSE s[1] + SumSeq(Tail(s))

\* C24: while every attempt of a retrying operation fails with a timeout or
\* a transport error, the sleep after failed attempt n (n = 0, 1) is 2^n
\* seconds, 1 s then 2 s; the third failure raises FireflyConnectionError
\* with no sleep after it, 3 s slept in all.
C24_BackoffSchedule ==
    (opKind \in RetryKinds /\ AllTransportFailures) =>
        /\ \A n \in 1..Len(sleeps) : sleeps[n] = Pow(2, n - 1)
        /\ opPc = "attempt" => Len(sleeps) = Len(responses)
        /\ opPc = "sleep" => Len(sleeps) = Len(responses) - 1
        /\ opPc # "returned"
        /\ opPc = "raised" =>
              /\ Len(responses) = 3
              /\ sleeps = <<1, 2>>
              /\ SumSeq(sleeps) = 3
              /\ opError = "FireflyConnectionError"

C24_Witness ==
    /\ opKind = "events" /\ opPc = "raised"
    /\ responses = <<"timeout", "client_error", "timeout">>
    /\ sleeps = <<1, 2>>
    /\ opError = "FireflyConnectionError"

RateLimitRaised == opPc = "raised" /\ opError = "FireflyRateLimitError"

\* C26: every cycle that fails with FireflyRateLimitError creates the
\* rate_limit_error issue in that same cycle, whatever came before, with a
\* suggested update interval of 15 + 5 = 20 minutes, ends Failed with
\* UpdateFailed, and sends no request after the one answered 429.
C26_RateLimitImmediate ==
    [][/\ RateLimitRaised =>
             /\ pc' = "idle"
             /\ Len(history') = Len(history) + 1
             /\ Last(history').kind = "FireflyRateLimitError"
             /\ Last(history').created = <<"rate_limit_error">>
             /\ "rate_limit_error" \in issues'
             /\ translation_placeholders'["rate_limit_error"] =
                   [key |-> "update_interval", value |-> 20]
             /\ lastResult' = [exc |-> "UpdateFailed",
                               msg |-> "Rate limit exceeded"]
             /\ opPc' = "idle" /\ requests' = 0
       /\ (/\ Len(history') = Len(history) + 1
           /\ Last(history').kind = "FireflyRateLimitError")
             => RateLimitRaised]_vars

C26_Witness ==
    /\ pc = "idle"
    /\ Len(history) = 1
    /\ history[1].kind = "FireflyRateLimitError"
    /\ history[1].created = <<"rate_limit_error">>
    /\ issues = {"rate_limit_error"}
    /\ translation_placeholders["rate_limit_error"].value = 20
    /\ lastResult.exc = "UpdateFailed"

\* The latest finished cycle failed with error kind and _async_update_data
\* raised exc with message msg.
FailedWith(kind, exc, msg) ==
    (Len(history) > 0 /\ Last(history).kind = kind)
        => lastResult = [exc |-> exc, msg |-> msg]

LowerCase(status) ==
    IF status \in {"Completed", "COMPLETED"} THEN "completed" ELSE status

\* C25: the bucket boundaries are half-open and relative to the cycle's
\* instant now: a task with a parsable due date d, naive taken as UTC, is in
\* due_today iff midnight <= d < midnight + 1 day, in upcoming iff
\* now <= d < midnight + lookahead days, and in overdue iff d < now and its
\* completion status, lower-cased, is not "completed".
C25_HalfOpenBuckets ==
    (Called("tasks") /\ result.status = "ok") =>
        \A i \in 1..Len(call.tasks) :
            LET task == call.tasks[i]
                d == task.dueDate.t
                midnight == TodayStart(call.now)
            IN  task.dueDate.form = "iso" =>
                /\ InBucket(result.due_today, task)
                      <=> (midnight <= d /\ d < midnight + Day)
                /\ InBucket(result.upcoming, task)
                      <=> (call.now <= d
                           /\ d < midnight + call.lookahead * Day)
                /\ InBucket(result.overdue, task)
                      <=> (d < call.now
                           /\ LowerCase(task.completionStatus) # "completed")

C25_Witness ==
    /\ Called("tasks")
    /\ result.status = "ok"
    /\ Len(call.tasks) = 2
    /\ call.tasks[1].dueDate = Ts("iso", "naive", TodayStart(call.now) + Day)
    /\ call.tasks[2].dueDate = Ts("iso", "aware", TodayStart(call.now))
    /\ call.tasks[2].completionStatus = "Completed"
    /\ TodayStart(call.now) < call.now
    /\ Len(result.due_today) = 1
    /\ result.due_today[1].raw_data = call.tasks[2]
    /\ result.upcoming = <<>>
    /\ result.overdue = <<>>

\* C21: verify_credentials sends one request and never retries; status 401,
\* seen on the response or carried by a raised response error, gives False;
\* any other response error raises FireflyAuthenticationError; a timeout or
\* a transport error raises FireflyConnectionError; a 2xx body gives its
\* valid flag, False when there is none.
C21_VerifyClassification ==
    \A e \in Entries :
        \A i \in 1..Len(setupLog[e]) :
            LET v == setupLog[e][i] IN
            v.call = "verify_credentials" =>
                /\ v.requests = 1
                /\ v.response \in {"401", "response_error_401"}
                      => v.outcome = "False"
                /\ v.response = "http_error"
                      => v.outcome = "FireflyAuthenticationError"
                /\ v.response \in {"timeout", "client_error"}
                      => v.outcome = "FireflyConnectionError"
                /\ v.response = "valid" => v.outcome = "True"
                /\ v.response \in {"invalid", "no_flag"}
                      => v.outcome = "False"

C21_Witness ==
    /\ entryPc[1] = "not_loaded"
    /\ Len(setupLog[1]) = 1
    /\ setupLog[1][1].call = "verify_credentials"
    /\ setupLog[1][1].response = "response_error_401"
    /\ setupLog[1][1].requests = 1
    /\ setupLog[1][1].outcome = "False"
    /\ setupResult[1] = "ConfigEntryAuthFailed"

Calls(log) == [i \in 1..Len(log) |-> log[i].call]
Outcomes(log) == [i \in 1..Len(log) |-> log[i].outcome]

\* C28: a setup verifies the credentials first; when verify_credentials
\* returns False it raises ConfigEntryAuthFailed without calling
\* get_api_version, creating a coordinator or storing anything; a
\* coordinator is stored only after verification, the version check and
\* the first refresh have succeeded, in this order.
C28_SetupOrdering ==
    [][\A e \in Entries :
          /\ setupLog'[e] # <<>> =>
                setupLog'[e][1].call = "verify_credentials"
          /\ (/\ entryPc[e] = "verify" /\ entryPc'[e] # "verify"
              /\ Last(setupLog'[e]).outcome = "False")
                => /\ setupResult'[e] = "ConfigEntryAuthFailed"
                   /\ entryPc'[e] = "not_loaded"
                   /\ Calls(setupLog'[e]) = <<"verify_credentials">>
                   /\ registry' = registry
                   /\ hass_domain' = hass_domain
          /\ (registry'[e] # registry[e] /\ registry'[e] # 0)
                => /\ Calls(setupLog'[e]) =
                         <<"verify_credentials", "get_api_version",
                           "coordinator", "first_refresh", "store">>
                   /\ Outcomes(setupLog'[e]) =
                         <<"True", "ok", "ok", "ok", "ok">>]_vars

C28_Witness ==
    /\ entryPc[1] = "loaded"
    /\ registry[1] = 1
    /\ Len(setupLog[1]) = 6
    /\ entryPc[2] = "not_loaded"
    /\ setupResult[2] = "ConfigEntryAuthFailed"
    /\ Outcomes(setupLog[2]) = <<"False">>
    /\ registry[2] = 0

\* C29: when the platforms of an entry unload, its coordinator is removed
\* from the registry and its async_shutdown invoked exactly once, whether
\* that returns or raises; the coordinators of the other entries stay, and
\* the domain key stays iff another entry remains. When the platforms do
\* not unload, the registry is unchanged and async_shutdown not invoked.
C29_UnloadContract ==
    [][\A e \in Entries :
          /\ (entryPc[e] = "unload_platforms" /\ entryPc'[e] = "shutdown")
                => /\ registry[e] # 0
                   /\ registry' = [registry EXCEPT ![e] = 0]
                   /\ shutdowns'[e] = <<"awaited">>
                   /\ hass_domain' = hass_domain
          /\ (entryPc[e] = "shutdown" /\ entryPc'[e] # "shutdown")
                => /\ registry' = registry
                   /\ registry[e] = 0
                   /\ Len(shutdowns'[e]) = 1
                   /\ shutdowns'[e][1] \in {"returned", "raised"}
                   /\ hass_domain' =
                         (\E f \in Entries \ {e} : registry[f] # 0)
          /\ (/\ entryPc[e] = "unload_platforms"
              /\ entryPc'[e] = "failed_unload")
                => /\ registry' = registry
                   /\ hass_domain' = hass_domain
                   /\ shutdowns'[e] = <<>>
                   /\ unloadResult'[e] = "False"]_vars

C29_Witness ==
    /\ entryPc[1] = "not_loaded"
    /\ unloadResult[1] = "True"
    /\ shutdowns[1] = <<"raised">>
    /\ registry[1] = 0
    /\ entryPc[2] = "loaded"
    /\ registry[2] # 0
    /\ hass_domain

SubmissionFailed ==
    flowLog # <<>> /\ Last(flowLog).outcome \notin {"ok", "True"}

\* The error the auth form shows for the way a submission failed.
ErrorShownFor(outcome) ==
    CASE outcome \in {"False", "FireflyAuthenticationError",
                      "FireflyTokenExpiredError"} -> "invalid_auth"
      [] outcome = "FireflyConnectionError" -> "cannot_connect"
      [] OTHER -> "unknown"

\* C30: the flow creates a config entry only when, within one auth
\* submission, parse_authentication_response succeeded, verify_credentials
\* returned True and user and children info were obtained; when one of
\* these fails no entry is created and the auth form is shown again with
\* invalid_auth, cannot_connect or unknown according to the failure.
C30_EntryOnlyAfterChecks ==
    /\ flowEntry.created =>
          /\ Calls(flowLog) = <<"parse_authentication_response",
                                "verify_credentials", "get_user_info",
                                "get_children_info">>
          /\ Outcomes(flowLog) = <<"ok", "True", "ok", "ok">>
          /\ flowStep = "done"
    /\ SubmissionFailed =>
          /\ ~flowEntry.created
          /\ flowStep = "auth"
          /\ flowErrors = ErrorShownFor(Last(flowLog).outcome)

C30_Witness ==
    /\ flowStep = "auth"
    /\ submissions = 1
    /\ Len(flowLog) = 4
    /\ flowLog[2].outcome = "True"
    /\ Last(flowLog).call = "get_children_info"
    /\ Last(flowLog).outcome = "FireflyConnectionError"
    /\ flowErrors = "cannot_connect"
    /\ ~flowEntry.created

\* C31: a school code submitted in the user step whose unique id belongs to
\* a configured entry aborts the flow: neither the auth form nor the user
\* form with an error is shown.
C31_ConfiguredSchoolAborts ==
    flowUserInput = "already_configured" =>
        /\ flowStep = "aborted"
        /\ flowErrors = "none"

\* The required child elements of the document of a decoding call.
RequiredElements ==
    IF call.fn = "school"
    THEN {call.doc.name, call.doc.installationId, call.doc.address}
    ELSE {call.doc.majorVersion, call.doc.minorVersion,
          call.doc.incrementVersion}

\* The fields of the record a decoding call returned.
ReturnedFields == {result.value[k] : k \in DOMAIN result.value}

\* C32: decoding a school document (of a school that exists) or a version
\* document raises FireflyDataError whenever a required child element is
\* missing or empty, and no record returned has a null required field.
C32_RequiredElementsOrDataError ==
    (/\ call.fn \in {"school", "version"}
     /\ result # NoResult
     /\ call.doc.xml
     /\ call.fn = "school" => call.doc.exists = "true") =>
        /\ RequiredElements \cap {"missing", "empty"} # {} =>
              result = Raised("FireflyDataError")
        /\ result.status = "ok" => "None" \notin ReturnedFields

\* C33: _get_events_rest_api requests the "day" period iff the requested
\* range end - start is at most one day, and the "week" period otherwise.
C33_DayPeriodIffWithinOneDay ==
    (call.fn = "period" /\ result # NoResult) =>
        /\ result.value \in {"day", "week"}
        /\ result.value = "day" <=> call.end - call.start <= Day

\* The fetch awaited is the next one in order: for the child at childIdx of
\* the target guids, events of today, events of the calendar window, tasks.
FetchIssuedInOrder ==
    /\ (pc = "fetch" /\ pc' = "fetch_call") =>
          /\ opKind' = FetchKind(fetchStep)
          /\ childIdx' = childIdx /\ fetchStep' = fetchStep
    /\ (pc = "fetch_call" /\ pc' = "fetch") =>
          \/ fetchStep < 3 /\ fetchStep' = fetchStep + 1
                           /\ childIdx' = childIdx
          \/ fetchStep = 3 /\ fetchStep' = 1 /\ childIdx' = childIdx + 1
    /\ (pc \notin {"fetch", "fetch_call"} /\ pc' = "fetch") =>
          childIdx' = 1 /\ fetchStep' = 1

\* The cycle ends on the fetch error at hand, filed under kind and counted
\* once; no operation is left in flight.
CycleFailedOnce(kind) ==
    /\ pc' = "idle" /\ opPc' = "idle"
    /\ Last(history').kind = kind
    /\ Last(history').fetched = SubSeq(TargetGuids, 1, childIdx - 1)
    /\ lastResult' = RaisedFor(opError)
    /\ statistics'.failed_updates = statistics.failed_updates + 1
    /\ statistics'.error_counts =
          [statistics.error_counts EXCEPT ![kind] = @ + 1]

\* C34: the fetches of a cycle are issued one after another, per child in
\* configured order; the first fetch that raises ends the cycle, classified
\* by the kind of that error and counted under exactly that kind, and no
\* request is sent while no cycle is in progress.
C34_FirstFetchErrorClassifies ==
    [][/\ FetchIssuedInOrder
       /\ (pc = "fetch_call" /\ opPc = "raised") =>
             CycleFailedOnce(ErrorType(opError))
       /\ pc = "idle" => requests' = requests /\ opPc = "idle"]_vars

C34_Witness ==
    /\ history # <<>>
    /\ Last(history).kind = "FireflyRateLimitError"
    /\ Len(children_guids) = 2
    /\ Last(history).fetched = <<1>>
    /\ statistics.error_counts["FireflyRateLimitError"] = 1
    /\ statistics.failed_updates = 1
    /\ pc = "idle"

SessionKept == UNCHANGED <<api_secret, api_user_info>>

\* C35: the host, device id and app id never change; the secret and the
\* cached identity change only in a parse_authentication_response call that
\* succeeds, to what its payload carries; a call that raises and every step
\* of a fetch (request, backoff, result, cancellation) leave them unchanged.
C35_SessionFrame ==
    [][/\ api_session' = api_session
       /\ clientVars' # clientVars => SessionKept
       /\ (call'.fn = "parse" /\ result'.status = "raised") => SessionKept
       /\ ~SessionKept =>
             /\ call'.fn = "parse" /\ result'.status = "ok"
             /\ api_secret' = call'.payload.secret
             /\ api_user_info' = call'.payload.role]_vars

C35_Witness ==
    /\ call.fn = "parse" /\ call.payload.kind = "empty_secret"
    /\ result = Raised("FireflyAuthenticationError")
    /\ api_secret = "secret2" /\ api_user_info = "parent"
    /\ opPc = "sleep" /\ opKind = "tasks"

RECURSIVE SumCounts(_, _)
SumCounts(counts, types) ==
    IF types = {} THEN 0
    ELSE LET t == CHOOSE x \in types : TRUE
         IN  counts[t] + SumCounts(counts, types \ {t})

\* C36: whenever no cycle is in progress, after cycles that succeeded,
\* failed or were cancelled at an await, total_updates is the sum of
\* successful_updates and failed_updates, and failed_updates is the sum of
\* the error_counts entries.
C36_StatisticsConsistent ==
    pc = "idle" =>
        /\ statistics.total_updates =
              statistics.successful_updates + statistics.failed_updates
        /\ statistics.failed_updates =
              SumCounts(statistics.error_counts, ErrorTypes)

\* C37: once a get_children_info call of the coordinator has returned, an
\* empty list included, no later cycle calls get_children_info again.
C37_ChildrenListCached ==
    children_info_returned => pc # "children_call"

\* C38: with a snapshot published, get_events_for_day(d) returns the
\* published events that start in [midnight of d, midnight of d + 1 day);
\* it returns the empty list only without a snapshot or when no published
\* event falls on d.
C38_EventsOfTheDay ==
    (call.fn = "events_for_day" /\ result # NoResult) =>
        result.value =
            IF call.data.published
            THEN StartingOn(call.data.week, TodayStart(call.target_date))
            ELSE <<>>

\* C39: a coordinator stored in the registry for an entry is removed, or
\* replaced by another coordinator of the entry, only with its
\* async_shutdown invoked, also when async_reload_entry sets the entry up
\* after an unload that returned False.
C39_NoCoordinatorLeaked ==
    [][\A e \in Entries :
          (registry[e] # 0 /\ registry'[e] # registry[e]) =>
              Len(shutdowns'[e]) = Len(shutdowns[e]) + 1]_vars

\* How a step of a setup ends on an authentication failure: credentials
\* that are not valid, a client call raising an authentication error, the
\* first refresh ending on an expired token or an authentication error.
AuthenticationFailures ==
    {"False", "FireflyTokenExpiredError", "FireflyAuthenticationError",
     "ConfigEntryAuthFailed"}

\* C40: a setup whose credential verification, version check or first
\* refresh fails on authentication raises ConfigEntryAuthFailed, never
\* ConfigEntryNotReady.
C40_AuthFailureSurfaced ==
    \A e \in Entries :
        (/\ setupLog[e] # <<>>
         /\ entryPc[e] = "not_loaded"
         /\ Last(setupLog[e]).outcome \in AuthenticationFailures) =>
            setupResult[e] = "ConfigEntryAuthFailed"

====
